---- MODULE Spec2Model ----
(***************************************************************************)
(* A model of main.py (DiscourseAutoRead): the browser session the bot     *)
(* drives (windows, active context, pages, cookies), the window            *)
(* consolidation _cleanup_tabs, the cookie reset _clear_anyrouter_cookies, *)
(* the AnyRouter sign-in with its retry loop, the two worklist traversals, *)
(* the reaction loop random_like, the locator resolvers, the polling waits *)
(* and main with its chain of check-ins.                                   *)
(*                                                                         *)
(* The browser is the environment.  Its operations raise exactly when the  *)
(* session state makes them raise (a window that is no longer open, an     *)
(* empty handle list); what the visited sites show is drawn from small     *)
(* sets.                                                                   *)
(***************************************************************************)
EXTENDS Integers, Sequences, FiniteSets, TLC

VARIABLES
    handles,          \* driver.window_handles: the open windows, in order
    cur,              \* the driver's active window (NoWindow: context lost)
    page,             \* page[h]: what window h shows (url, error text)
    jar,              \* the session's cookies
    tabRun,           \* the consecutive _cleanup_tabs calls, latest last
    ckRun,            \* the last _clear_anyrouter_cookies call
    arPc,             \* anyrouter_checkin: where the handler stands
    attempt,          \* anyrouter_checkin: the loop variable
    outcomes,         \* the results of the attempts run so far
    arLog,            \* the attempts and resets run so far, in order
    arReturn,         \* what anyrouter_checkin returned
    original_window,  \* _anyrouter_checkin_attempt: its local of that name
    att,              \* what the last attempt saw and did
    rdKind,           \* the traversal running: read_posts or read_new_posts
    rdPc,             \* the traversal: in its loop or returned
    count,            \* read_posts / read_new_posts: topics read so far
    visited_urls,     \* read_new_posts: its local of that name
    listed,           \* the topics the list page shows when it is loaded
    listed0,          \* the topics the list page showed at the start
    rdLog,            \* the topics opened so far and how each ended
    rdListFailed,     \* the topic list failed to load
    lkPc,             \* random_like: in its loop or returned
    like_count,       \* random_like: the drawn number of likes to give
    liked,            \* random_like: its local of that name
    attempts,         \* random_like: its local of that name
    liked_positions,  \* random_like: its local of that name
    lkLog,            \* the targets selected so far and how each click ended
    lkOffered,        \* the position keys the last query of the page listed
    lcKind,           \* the locator resolver running
    lcPc,             \* the resolver: running or returned
    lcIdx,            \* the candidate selector the resolver is at
    lcResult,         \* what the resolver returned
    lcVisited,        \* get_first_new_topic: its argument visited_urls
    lcFirstVisible,   \* the first visible match a query of this call yielded
    lcRaised,         \* a query or an element of this call raised
    lcQuery,          \* what the last query of the page yielded
    wtKind,           \* the polling wait running
    wtPc,             \* the wait: before its loop, in it, or ended
    wtI,              \* handle_cloudflare: i; qaqal_checkin: elapsed
    wtPolls,          \* how often the wait has evaluated its condition
    wtOut,            \* how the wait ended
    mnPc,             \* main: where it stands
    mnConfigs,        \* main: configs (is_linux_do of each)
    mnIdx,            \* main: the index of cfg in configs
    mnDriver,         \* bot.driver: not created, open, or quit
    mnLog,            \* what main has started and what came of it, in order
    mnExit,           \* the exit status of the process
    wtSubmit,         \* qaqal_checkin: what became of the submit click
    srPc,             \* simulate_reading: in its loop or past it
    srElapsed,        \* simulate_reading: time.time() - start_time, seconds
    bottom_count,     \* simulate_reading: its local of that name
    srLast,           \* the last at-bottom checks, latest last
    srOut,            \* how the scroll loop ended
    suPc,             \* _setup_driver: the step it is at
    suCfg,            \* the username, password and cookie_str of the bot
    suLog             \* what _setup_driver has done, in order

browserVars == <<handles, cur, page, jar>>
harnessVars == <<tabRun, ckRun>>
arVars == <<arPc, attempt, outcomes, arLog, arReturn, original_window, att>>
rdVars == <<rdKind, rdPc, count, visited_urls, listed, listed0, rdLog,
            rdListFailed>>
lkVars == <<lkPc, like_count, liked, attempts, liked_positions, lkLog,
            lkOffered>>

lcVars == <<lcKind, lcPc, lcIdx, lcResult, lcVisited, lcFirstVisible, lcRaised,
            lcQuery>>
wtVars == <<wtKind, wtPc, wtI, wtPolls, wtOut, wtSubmit>>
mnVars == <<mnPc, mnConfigs, mnIdx, mnDriver, mnLog, mnExit>>
srVars == <<srPc, srElapsed, bottom_count, srLast, srOut>>
suVars == <<suPc, suCfg, suLog>>
otherVars == <<lcVars, wtVars, mnVars, srVars, suVars>>

vars == <<handles, cur, page, jar, tabRun, ckRun, arPc, attempt, outcomes,
          arLog, arReturn, original_window, att, rdKind, rdPc, count,
          visited_urls, listed, listed0, rdLog, rdListFailed, lkPc,
          like_count, liked, attempts, liked_positions, lkLog, lkOffered,
          lcKind, lcPc, lcIdx, lcResult, lcVisited, lcFirstVisible, lcRaised,
          lcQuery, wtKind, wtPc, wtI, wtPolls, wtOut, mnPc, mnConfigs, mnIdx,
          mnDriver, mnLog, mnExit, wtSubmit, srPc, srElapsed, bottom_count,
          srLast, srOut, suPc, suCfg, suLog>>

-----------------------------------------------------------------------------
(* Bounds *)

\* number of window identifiers the session can hand out
MaxWin == 4

\* MAX_TOPICS / MAX_NEW_TOPICS: the cap of a worklist traversal
MaxTopics == 2

\* number of topics a list page can show
NumTopics == 5

\* iterations of a traversal loop that are followed
MaxIter == 6

\* the largest MAX_LIKES the reaction loop is run with
MaxLikes == 2

\* the most elements one query of the page returns
MaxElems == 2

-----------------------------------------------------------------------------
(* The browser session *)

Handles == 1..MaxWin
NoWindow == 0

Range(s) == {s[i] : i \in DOMAIN s}

Remove(s, x) == SelectSeq(s, LAMBDA y : y # x)

\* URLs the flows meet, as host and path
UrlLogin   == [host |-> "anyrouter.top",    path |-> "/login"]
UrlToken   == [host |-> "anyrouter.top",    path |-> "/console/token"]
UrlConsole == [host |-> "anyrouter.top",    path |-> "/console"]
UrlConnect == [host |-> "connect.linux.do", path |-> "/oauth2/authorize"]
UrlForum   == [host |-> "linux.do",         path |-> "/"]

Urls == {UrlLogin, UrlToken, UrlConsole, UrlConnect, UrlForum}

BlankPage == [url |-> UrlForum, err |-> FALSE]

\* The driver as a value: what the handlers below transform.
\* raised: an exception left the handler.
Driver(h, c) == [handles |-> h, cur |-> c, raised |-> FALSE]

\* driver.switch_to.window(h) followed by driver.close(), inside try/except:
\* a window that is no longer open raises NoSuchWindowException, swallowed.
\* After close() the driver has no active window until the next switch.
CloseWindow(b, h) ==
    IF h \in Range(b.handles)
    THEN [b EXCEPT !.handles = Remove(b.handles, h), !.cur = NoWindow]
    ELSE b

\* for h in self.driver.window_handles: if h != keep_handle: close it
RECURSIVE CloseOthers(_, _, _)
CloseOthers(b, snapshot, keep_handle) ==
    IF snapshot = <<>>
    THEN b
    ELSE LET h == Head(snapshot)
         IN  CloseOthers(IF h # keep_handle THEN CloseWindow(b, h) ELSE b,
                         Tail(snapshot), keep_handle)

\* a consolidation that forgets the last handle of the list
cleanup_tabs_skip_last(b, keep_handle) ==
    LET n == Len(b.handles)
        c == CloseOthers(b, SubSeq(b.handles, 1, n - 1), keep_handle)
    IN  IF keep_handle \in Range(c.handles)
        THEN [c EXCEPT !.cur = keep_handle]
        ELSE IF c.handles # <<>>
             THEN [c EXCEPT !.cur = c.handles[1]]
             ELSE [c EXCEPT !.raised = TRUE]

\* _cleanup_tabs(keep_handle): close every window but keep_handle, switch to
\* it; if that switch raises, switch to window_handles[0], which raises
\* IndexError when no window is left.
cleanup_tabs(b, keep_handle) ==
    LET c == CloseOthers(b, b.handles, keep_handle)
    IN  IF keep_handle \in Range(c.handles)
        THEN [c EXCEPT !.cur = keep_handle]
        ELSE IF c.handles # <<>>
             THEN [c EXCEPT !.cur = c.handles[1]]
             ELSE [c EXCEPT !.raised = TRUE]

-----------------------------------------------------------------------------
(* Cookies *)

CookieNames   == {"session", "cf_clearance", "_t"}
CookieDomains == {<<"anyrouter", "top">>, <<"linux", "do">>,
                  <<"connect", "linux", "do">>}
Cookies == [name : CookieNames, domain : CookieDomains]

\* 'anyrouter' in domain
InDomain(label, domain) == \E i \in DOMAIN domain : domain[i] = label

\* driver.get_cookies(): the jar as a list
RECURSIVE CookieList(_)
CookieList(S) ==
    IF S = {} THEN <<>>
    ELSE LET c == CHOOSE x \in S : TRUE IN <<c>> \o CookieList(S \ {c})

\* driver.delete_cookie(name): the session's only deletion, by name
delete_cookie(j, name) == {c \in j : c.name # name}

\* for cookie in all_cookies: if 'anyrouter' in domain: delete_cookie(name)
RECURSIVE ClearLoop(_, _)
ClearLoop(j, all_cookies) ==
    IF all_cookies = <<>>
    THEN j
    ELSE LET cookie == Head(all_cookies)
         IN  ClearLoop(IF InDomain("anyrouter", cookie.domain)
                       THEN delete_cookie(j, cookie.name) ELSE j,
                       Tail(all_cookies))

\* _clear_anyrouter_cookies
clear_anyrouter_cookies(j) == ClearLoop(j, CookieList(j))

-----------------------------------------------------------------------------
(* Window consolidation on its own: every window set, every keep_handle *)

NoAttempt == [phase |-> "none"]

ArIdle ==
    /\ arPc = "off"
    /\ attempt = 0
    /\ outcomes = <<>>
    /\ arLog = <<>>
    /\ arReturn = "none"
    /\ original_window = NoWindow
    /\ att = NoAttempt

RdIdle ==
    /\ rdKind = "off"
    /\ rdPc = "off"
    /\ count = 0
    /\ visited_urls = {}
    /\ listed = {}
    /\ listed0 = {}
    /\ rdLog = <<>>
    /\ rdListFailed = FALSE

LkIdle ==
    /\ lkPc = "off"
    /\ like_count = 0
    /\ liked = 0
    /\ attempts = 0
    /\ liked_positions = {}
    /\ lkLog = <<>>
    /\ lkOffered = {}

NoResult == [kind |-> "pending"]
NoElement == [kind |-> "none"]
NoQuery == [raises |-> FALSE, els |-> <<>>]

LcIdle ==
    /\ lcKind = "off"
    /\ lcPc = "off"
    /\ lcIdx = 0
    /\ lcResult = NoResult
    /\ lcVisited = {}
    /\ lcFirstVisible = NoElement
    /\ lcRaised = FALSE
    /\ lcQuery = NoQuery

WtIdle ==
    /\ wtKind = "off"
    /\ wtPc = "off"
    /\ wtI = 0
    /\ wtPolls = 0
    /\ wtOut = "none"
    /\ wtSubmit = [clicked |-> FALSE, ret |-> "none"]

MnIdle ==
    /\ mnPc = "off"
    /\ mnConfigs = <<>>
    /\ mnIdx = 0
    /\ mnDriver = "none"
    /\ mnLog = <<>>
    /\ mnExit = 0

SrIdle ==
    /\ srPc = "off"
    /\ srElapsed = 0
    /\ bottom_count = 0
    /\ srLast = <<>>
    /\ srOut = "none"

SuIdle ==
    /\ suPc = "off"
    /\ suCfg = [username |-> FALSE, password |-> FALSE, cookie |-> FALSE,
                chunks |-> 0]
    /\ suLog = <<>>

OtherIdle == LcIdle /\ WtIdle /\ MnIdle /\ SrIdle /\ SuIdle

TabsIdle == /\ jar = {}
            /\ ckRun = <<>>
            /\ ArIdle
            /\ RdIdle
            /\ LkIdle
            /\ OtherIdle

TabsInit ==
    /\ handles = <<1>>
    /\ cur = 1
    /\ page = [h \in Handles |-> BlankPage]
    /\ tabRun = <<>>
    /\ TabsIdle

\* a site opens a window (a federated-login popup)
TabsOpenWindow ==
    /\ handles # <<>>
    /\ \E h \in Handles \ Range(handles) :
          handles' = Append(handles, h)
    /\ tabRun' = <<>>
    /\ UNCHANGED <<cur, page, jar, ckRun, arVars, rdVars, lkVars, otherVars>>

\* a window closes by itself (the SSO tab auto-closes); never the last one
TabsAutoClose ==
    /\ Len(handles) > 1
    /\ \E h \in Range(handles) :
          /\ handles' = Remove(handles, h)
          /\ cur' = IF cur = h THEN NoWindow ELSE cur
    /\ tabRun' = <<>>
    /\ UNCHANGED <<page, jar, ckRun, arVars, rdVars, lkVars, otherVars>>

\* driver.switch_to.window(h) by a caller
TabsSwitch ==
    /\ \E h \in Range(handles) : cur' = h
    /\ cur' # cur
    /\ tabRun' = <<>>
    /\ UNCHANGED <<handles, page, jar, ckRun, arVars, rdVars, lkVars, otherVars>>

\* self._cleanup_tabs(keep_handle)
TabsCleanup ==
    /\ handles # <<>>
    /\ \E keep_handle \in Handles :
          LET r == cleanup_tabs(Driver(handles, cur), keep_handle)
              call == [keep |-> keep_handle, before |-> handles,
                       after |-> r.handles, active |-> r.cur,
                       raised |-> r.raised]
          IN  /\ handles' = r.handles
              /\ cur' = r.cur
              /\ tabRun' = IF tabRun = <<>> THEN <<call>>
                           ELSE <<tabRun[Len(tabRun)], call>>
    /\ UNCHANGED <<page, jar, ckRun, arVars, rdVars, lkVars, otherVars>>

TabsNext == TabsOpenWindow \/ TabsAutoClose \/ TabsSwitch \/ TabsCleanup

SpecTabs == TabsInit /\ [][TabsNext]_vars

-----------------------------------------------------------------------------
(* The cookie reset on its own: every jar *)

CookiesInit ==
    /\ handles = <<1>>
    /\ cur = 1
    /\ page = [h \in Handles |-> BlankPage]
    /\ tabRun = <<>>
    /\ jar \in SUBSET Cookies
    /\ ckRun = <<>>
    /\ ArIdle
    /\ RdIdle
    /\ LkIdle
    /\ OtherIdle

\* self._clear_anyrouter_cookies()
CookiesClear ==
    /\ ckRun = <<>>
    /\ jar' = clear_anyrouter_cookies(jar)
    /\ ckRun' = <<[before |-> jar]>>
    /\ UNCHANGED <<handles, cur, page, tabRun, arVars, rdVars, lkVars, otherVars>>

\* the sites set a cookie again
CookiesSet ==
    /\ ckRun # <<>>
    /\ \E c \in Cookies \ jar : jar' = jar \cup {c}
    /\ ckRun' = <<>>
    /\ UNCHANGED <<handles, cur, page, tabRun, arVars, rdVars, lkVars, otherVars>>

CookiesNext == CookiesClear \/ CookiesSet

SpecCookies == CookiesInit /\ [][CookiesNext]_vars

-----------------------------------------------------------------------------
(* AnyRouter sign-in: anyrouter_checkin and _anyrouter_checkin_attempt *)

max_retries == 3

\* "anyrouter.top/console/token" in tab_url
HasSuccessPattern(u) == u.host = "anyrouter.top" /\ u.path = "/console/token"
\* "anyrouter.top" in tab_url
OnAnyrouter(u) == u.host = "anyrouter.top"
\* "/login" in tab_url
HasLogin(u) == u.path = "/login"
\* "connect.linux.do" in current_url
OnConnect(u) == u.host = "connect.linux.do"

\* what a window can show when the scan reads it
ScanPages ==
    {[url |-> UrlToken,   err |-> FALSE], [url |-> UrlToken,   err |-> TRUE],
     [url |-> UrlLogin,   err |-> FALSE], [url |-> UrlConsole, err |-> FALSE],
     [url |-> UrlConnect, err |-> FALSE], [url |-> UrlConnect, err |-> TRUE]}

\* where the verification navigation to /console/token can land
VerifyUrls == {UrlToken, UrlLogin, UrlConnect}

\* the cookie anyrouter.top sets when its login page is loaded
AnyrouterCookie == [name |-> "session", domain |-> <<"anyrouter", "top">>]

\* the cookies of the logged-in linux.do session
LinuxDoCookies == {[name |-> "session", domain |-> <<"linux", "do">>],
                   [name |-> "_t", domain |-> <<"linux", "do">>]}

\* the identifier the browser gives the next window it opens
FreshHandle(hs) ==
    CHOOSE h \in Handles \ Range(hs) : \A g \in Handles \ Range(hs) : h <= g

\* [w for w in self.driver.window_handles if w != original_window][0]
FirstOther(hs, w) == Head(SelectSeq(hs, LAMBDA x : x # w))

\* the locals of the scan before its loop
ScanStart(c) ==
    [success_handle |-> NoWindow, failure_handle |-> NoWindow,
     failure_reason |-> "none", anyrouter_handle |-> NoWindow, cur |-> c]

\* a scan that reads the page text before it looks at the URL
RECURSIVE ScanWindowsTextFirst(_, _, _, _)
ScanWindowsTextFirst(snapshot, open, shown, s) ==
    IF snapshot = <<>>
    THEN s
    ELSE LET handle == Head(snapshot)
             rest == Tail(snapshot)
         IN  IF handle \notin open
             THEN ScanWindowsTextFirst(rest, open, shown, s)
             ELSE LET t == [s EXCEPT !.cur = handle]
                      tab_url == shown[handle].url
                  IN  IF shown[handle].err
                      THEN ScanWindowsTextFirst(rest, open, shown,
                              [t EXCEPT !.failure_handle = handle,
                                        !.failure_reason = "error message on page"])
                      ELSE IF HasSuccessPattern(tab_url)
                      THEN [t EXCEPT !.success_handle = handle]
                      ELSE IF OnAnyrouter(tab_url) /\ HasLogin(tab_url)
                      THEN ScanWindowsTextFirst(rest, open, shown,
                              [t EXCEPT !.failure_handle = handle,
                                        !.failure_reason = "redirected to /login"])
                      ELSE IF OnAnyrouter(tab_url) /\ ~HasLogin(tab_url)
                      THEN ScanWindowsTextFirst(rest, open, shown,
                              [t EXCEPT !.anyrouter_handle = handle])
                      ELSE ScanWindowsTextFirst(rest, open, shown, t)

\* for handle in self.driver.window_handles: ... (the scan of all tabs).
\* snapshot: the handle list read at the start of the loop; open: the windows
\* of it that are still open when their turn comes (the switch to any other
\* raises, and the loop continues); shown: what each window shows.
RECURSIVE ScanWindows(_, _, _, _)
ScanWindows(snapshot, open, shown, s) ==
    IF snapshot = <<>>
    THEN s
    ELSE LET handle == Head(snapshot)
             rest == Tail(snapshot)
         IN  IF handle \notin open
             THEN ScanWindows(rest, open, shown, s)
             ELSE LET t == [s EXCEPT !.cur = handle]
                      tab_url == shown[handle].url
                  IN  IF HasSuccessPattern(tab_url)
                      THEN [t EXCEPT !.success_handle = handle]
                      ELSE IF shown[handle].err
                      THEN ScanWindows(rest, open, shown,
                              [t EXCEPT !.failure_handle = handle,
                                        !.failure_reason = "error message on page"])
                      ELSE IF OnAnyrouter(tab_url) /\ HasLogin(tab_url)
                      THEN ScanWindows(rest, open, shown,
                              [t EXCEPT !.failure_handle = handle,
                                        !.failure_reason = "redirected to /login"])
                      ELSE IF OnAnyrouter(tab_url) /\ ~HasLogin(tab_url)
                      THEN ScanWindows(rest, open, shown,
                              [t EXCEPT !.anyrouter_handle = handle])
                      ELSE ScanWindows(rest, open, shown, t)

\* the result of the consolidation: the driver, the handle kept, the branch
Consolidated(c, keep, branch) ==
    [handles |-> c.handles, cur |-> c.cur, raised |-> c.raised,
     kept |-> keep, branch |-> branch]

\* a consolidation that keeps the failure window on the failure branch
ConsolidateKeepFailure(b, s, original) ==
    IF s.success_handle # NoWindow
    THEN Consolidated(cleanup_tabs(b, s.success_handle),
                      s.success_handle, "success")
    ELSE IF s.failure_handle # NoWindow
    THEN LET keep == IF s.failure_handle \in Range(b.handles)
                     THEN s.failure_handle ELSE b.handles[1]
         IN  Consolidated(cleanup_tabs(b, keep), keep, "failure")
    ELSE LET target == IF s.anyrouter_handle # NoWindow
                       THEN s.anyrouter_handle ELSE original
             keep == IF target \notin Range(b.handles)
                     THEN b.handles[1] ELSE target
         IN  Consolidated(cleanup_tabs(b, keep), keep, "unclear")

\* "Close extra tabs and consolidate to a single window": the three
\* branches after the scan, each calling _cleanup_tabs.
\* b.handles is never empty here (a browser keeps its last window).
Consolidate(b, s, original) ==
    IF s.success_handle # NoWindow
    THEN Consolidated(cleanup_tabs(b, s.success_handle),
                      s.success_handle, "success")
    ELSE IF s.failure_handle # NoWindow
    THEN LET keep == IF original \in Range(b.handles)
                     THEN original ELSE b.handles[1]
         IN  Consolidated(cleanup_tabs(b, keep), keep, "failure")
    ELSE LET target == IF s.anyrouter_handle # NoWindow
                       THEN s.anyrouter_handle ELSE original
             keep == IF target \notin Range(b.handles)
                     THEN b.handles[1] ELSE target
         IN  Consolidated(cleanup_tabs(b, keep), keep, "unclear")

\* return from _anyrouter_checkin_attempt with result res
EndAttempt(res, a) ==
    /\ outcomes' = Append(outcomes, res)
    /\ att' = a
    /\ arPc' = "ret"

\* an exception that ends the attempt with no classification
AttemptRaisedUnclassified(a) ==
    /\ att' = a
    /\ arPc' = "ret"
    /\ UNCHANGED outcomes

\* except Exception as e: return False
AttemptRaised(a) == EndAttempt(FALSE, a)

\* a required step that is passed over when its element is missing
required_missing_goes_on(a) ==
    /\ att' = a
    /\ arPc' = "classify"
    /\ UNCHANGED outcomes

\* except Exception: logger.error("Failed to find ... button"); return False
required_missing(a) == EndAttempt(FALSE, a)

\* what the steps 1 to 7 did: how they ended, the window switched to as the
\* new tab, the elements a click was issued on
Driven(step, new_window, clicks) ==
    [phase |-> "drive", step |-> step, new_window |-> new_window,
     clicks |-> clicks]

\* authorize_button.click() is reached only with the element wait.until gave
ClicksWith(authorize) ==
    IF authorize = "timeout" THEN {"linuxdo"} ELSE {"linuxdo", "authorize"}

ArInit ==
    /\ handles = <<1>>
    /\ cur = 1
    /\ page = [h \in Handles |-> BlankPage]
    /\ jar = LinuxDoCookies
    /\ tabRun = <<>>
    /\ ckRun = <<>>
    /\ arPc = "drive"
    /\ attempt = 1
    /\ outcomes = <<>>
    /\ arLog = <<>>
    /\ arReturn = "none"
    /\ original_window = NoWindow
    /\ att = NoAttempt
    /\ RdIdle
    /\ LkIdle
    /\ OtherIdle

\* _anyrouter_checkin_attempt, steps 1 to 7: load the login page, click the
\* LinuxDO button, switch to the new tab, click the authorize button.
ArDrive ==
    /\ arPc = "drive"
    /\ arLog' = Append(arLog, "attempt")
    /\ UNCHANGED <<attempt, arReturn, harnessVars, rdVars, lkVars, otherVars>>
    /\ IF cur = NoWindow
       THEN \* driver.current_window_handle raises: except Exception
            /\ AttemptRaised(Driven("raised", NoWindow, {}))
            /\ UNCHANGED <<handles, cur, page, jar, original_window>>
       ELSE
         /\ original_window' = cur
         /\ jar' = jar \cup {AnyrouterCookie}
         /\ LET loaded == [page EXCEPT ![cur] =
                              [url |-> UrlLogin, err |-> FALSE]]
            IN
            \/ \* neither locator finds the LinuxDO button: return False
               /\ page' = loaded
               /\ UNCHANGED <<handles, cur>>
               /\ required_missing(Driven("no_button", NoWindow, {}))
            \/ \* the button is clicked through JS
               \E button \in {"primary", "fallback"},
                  opened \in {"popup", "same_tab", "nothing"} :
                 /\ (opened = "popup" => Handles \ Range(handles) # {})
                 /\ LET fresh == FreshHandle(handles)
                        hs == IF opened = "popup"
                              THEN Append(handles, fresh) ELSE handles
                        pg == IF opened = "popup"
                              THEN [loaded EXCEPT ![fresh] =
                                      [url |-> UrlConnect, err |-> FALSE]]
                              ELSE IF opened = "same_tab"
                              THEN [loaded EXCEPT ![cur] =
                                      [url |-> UrlConnect, err |-> FALSE]]
                              ELSE loaded
                    IN
                    /\ handles' = hs
                    /\ page' = pg
                    /\ IF Len(hs) > 1
                       THEN \* step 6: switch to the "new" tab
                            LET new_window == FirstOther(hs, cur)
                            IN  /\ cur' = new_window
                                /\ \/ /\ arPc' = "classify"
                                      /\ \E authorize \in {"clicked", "timeout"} :
                                           att' = Driven(authorize, new_window,
                                                     ClicksWith(authorize))
                                      /\ UNCHANGED outcomes
                                   \/ \* authorize_button.click() raises
                                      AttemptRaised(
                                         Driven("raised", new_window,
                                                ClicksWith("clicked")))
                       ELSE \* TimeoutException: no new tab
                            /\ cur' = cur
                            /\ IF ~OnConnect(pg[cur].url)
                               THEN EndAttempt(FALSE,
                                      Driven("no_tab", NoWindow, {"linuxdo"}))
                               ELSE \/ /\ arPc' = "classify"
                                       /\ \E authorize \in {"clicked", "timeout"} :
                                            att' = Driven(authorize, NoWindow,
                                                      ClicksWith(authorize))
                                       /\ UNCHANGED outcomes
                                    \/ AttemptRaised(
                                         Driven("raised", NoWindow,
                                                ClicksWith("clicked")))

\* _anyrouter_checkin_attempt from the scan on, for one behaviour of the
\* browser: snapshot is the handle list the scan reads, open the windows of
\* it that are open at their turn, after the handle list consolidation reads.
ClassifyWith(snapshot, open, after, shown, gone) ==
    LET s == ScanWindows(snapshot, open, shown,
                ScanStart(IF cur \in Range(snapshot) THEN cur ELSE NoWindow))
        b == Driver(after, IF s.cur \in Range(after) THEN s.cur ELSE NoWindow)
        c == Consolidate(b, s, original_window)
        seen == [phase |-> "classified",
                 authorize |-> att.step,
                 scanned |-> snapshot,
                 open |-> open,
                 after |-> after,
                 shown |-> shown,
                 gone |-> gone[1],
                 kept |-> c.kept,
                 branch |-> c.branch,
                 verified |-> FALSE]
        left == [h \in Handles |->
                   IF h \in Range(c.handles) THEN shown[h] ELSE BlankPage]
    IN
    /\ handles' = c.handles
    /\ cur' = c.cur
    /\ IF c.raised
       THEN \* _cleanup_tabs raised: except Exception, return False
            /\ page' = left
            /\ AttemptRaised(seen)
       ELSE IF c.branch = "success"
       THEN /\ page' = left
            /\ EndAttempt(TRUE, seen)
       ELSE IF c.branch = "failure"
       THEN /\ page' = left
            /\ EndAttempt(FALSE, seen)
       ELSE IF /\ OnAnyrouter(shown[c.cur].url)
               /\ ~HasLogin(shown[c.cur].url)
       THEN \* driver.get("https://anyrouter.top/console/token")
            \E landed \in VerifyUrls :
              /\ page' = [left EXCEPT ![c.cur] =
                            [url |-> landed, err |-> FALSE]]
              /\ EndAttempt(~HasLogin(landed),
                            [seen EXCEPT !.verified = TRUE])
       ELSE /\ page' = left
            /\ EndAttempt(FALSE, seen)

\* _anyrouter_checkin_attempt, step 8 to the end: wait, scan all tabs,
\* consolidate, verify.  One window may close by itself meanwhile (the SSO
\* tab auto-closes): during the wait, while the scan runs before its turn, or
\* after its turn; the browser keeps its last window.
ArClassify ==
    /\ arPc = "classify"
    /\ UNCHANGED <<attempt, arLog, arReturn, original_window, jar, harnessVars,
                   rdVars, lkVars, otherVars>>
    /\ \E gone \in {<<NoWindow, "none">>}
                   \cup (Range(handles) \X {"wait", "before", "after"}) :
       /\ (gone[1] # NoWindow => Len(handles) > 1)
       /\ LET snapshot == IF gone[2] = "wait"
                          THEN Remove(handles, gone[1]) ELSE handles
              open == IF gone[2] = "before"
                      THEN Range(snapshot) \ {gone[1]} ELSE Range(snapshot)
              after == Remove(handles, gone[1])
          IN  \E shown \in [Range(snapshot) -> ScanPages] :
                 ClassifyWith(snapshot, open, after, shown, gone)

\* a loop that goes on after a successful attempt
ArLoopNoReturn ==
    /\ arPc = "ret"
    /\ UNCHANGED <<handles, cur, page, outcomes, original_window, att,
                   harnessVars, rdVars, lkVars, otherVars>>
    /\ IF attempt < max_retries
       THEN /\ jar' = clear_anyrouter_cookies(jar)
            /\ arLog' = Append(arLog, "reset")
            /\ attempt' = attempt + 1
            /\ arPc' = "drive"
            /\ UNCHANGED arReturn
       ELSE /\ arPc' = "done"
            /\ arReturn' = IF outcomes[Len(outcomes)]
                           THEN "success" ELSE "failure"
            /\ UNCHANGED <<jar, arLog, attempt>>

\* a loop that resets after every failed attempt, the last one too
ArLoopResetAlways ==
    /\ arPc = "ret"
    /\ UNCHANGED <<handles, cur, page, outcomes, original_window, att,
                   harnessVars, rdVars, lkVars, otherVars>>
    /\ IF outcomes[Len(outcomes)]
       THEN /\ arPc' = "done"
            /\ arReturn' = "success"
            /\ UNCHANGED <<jar, arLog, attempt>>
       ELSE /\ jar' = clear_anyrouter_cookies(jar)
            /\ arLog' = Append(arLog, "reset")
            /\ IF attempt < max_retries
               THEN /\ attempt' = attempt + 1
                    /\ arPc' = "drive"
                    /\ UNCHANGED arReturn
               ELSE /\ arPc' = "done"
                    /\ arReturn' = "failure"
                    /\ UNCHANGED attempt

\* how far _clear_anyrouter_cookies gets: the cookies of the list it has
\* gone through when get_cookies or a delete_cookie raises (none, when
\* get_cookies does), or the whole list
ResetReach(j) == 0..Len(CookieList(j))

\* _clear_anyrouter_cookies that got through k cookies of the list: the
\* except Exception of its try ends it there
reset_upto(j, k) == ClearLoop(j, SubSeq(CookieList(j), 1, k))

\* a reset whose exception reaches anyrouter_checkin and ends it
after_reset_raises(raised) == IF raised THEN "done" ELSE "drive"

\* except Exception as e: logger.warning(...): the loop goes on with the
\* next attempt, the reset having raised or not
after_reset(raised) == "drive"

\* anyrouter_checkin, the loop body after the attempt: return True on
\* success; else clear the cookies and go on if attempts are left; else
\* return False.
ArLoop ==
    /\ arPc = "ret"
    /\ UNCHANGED <<handles, cur, page, outcomes, original_window, att,
                   harnessVars, rdVars, lkVars, otherVars>>
    /\ IF outcomes[Len(outcomes)]
       THEN /\ arPc' = "done"
            /\ arReturn' = "success"
            /\ UNCHANGED <<jar, arLog, attempt>>
       ELSE IF attempt < max_retries
       THEN /\ \E k \in ResetReach(jar) :
                 /\ jar' = reset_upto(jar, k)
                 /\ arPc' = after_reset(k < Len(CookieList(jar)))
            /\ arLog' = Append(arLog, "reset")
            /\ attempt' = attempt + 1
            /\ UNCHANGED arReturn
       ELSE /\ arPc' = "done"
            /\ arReturn' = "failure"
            /\ UNCHANGED <<jar, arLog, attempt>>

ArNext == ArDrive \/ ArClassify \/ ArLoop

SpecAnyRouter == ArInit /\ [][ArNext]_vars

-----------------------------------------------------------------------------
(* Worklist traversals: read_posts (/unread) and read_new_posts (/new) *)

Topics == 1..NumTopics
None == 0

\* the first element of the list page, in page order
FirstOf(S) == IF S = {} THEN None ELSE CHOOSE t \in S : \A u \in S : t <= u

\* get_first_unread_badge: the first visible unread badge of the page
get_first_unread_badge(lst) == FirstOf(lst)

\* a get_first_new_topic that does not look at visited_urls
get_first_new_topic_any(lst, visited) == FirstOf(lst)

\* get_first_new_topic(visited_urls): the first visible link of the page
\* whose href is not in visited_urls
get_first_new_topic(lst, visited) == FirstOf(lst \ visited)

\* how opening one topic can end: badge.click() raises; check_topic_error()
\* finds an error page; simulate_reading() raises; simulate_reading() returns
OpenOutcomes == {"click_raised", "load_error", "read_raised", "consumed"}

RdInit ==
    /\ handles = <<1>>
    /\ cur = 1
    /\ page = [h \in Handles |-> BlankPage]
    /\ jar = {}
    /\ tabRun = <<>>
    /\ ckRun = <<>>
    /\ ArIdle
    /\ rdKind \in {"unread", "new"}
    /\ rdPc = "loop"
    /\ count = 0
    /\ visited_urls = {}
    /\ \E n \in 0..NumTopics : listed = 1..n /\ listed0 = 1..n
    /\ rdLog = <<>>
    /\ rdListFailed = FALSE
    /\ LkIdle
    /\ OtherIdle

\* one topic was opened and ended with outcome; the forum drops it from the
\* list page or goes on listing it (stays)
RdOpened(topic, outcome, stays) ==
    /\ rdLog' = Append(rdLog, <<topic, outcome>>)
    /\ count' = IF outcome = "consumed" THEN count + 1 ELSE count
    /\ listed' = IF stays THEN listed ELSE listed \ {topic}
    /\ UNCHANGED <<rdPc, rdListFailed>>

\* the loop ends: its condition is false or a break
RdReturn(failed) ==
    /\ rdPc' = "done"
    /\ rdListFailed' = failed
    /\ UNCHANGED <<count, listed, rdLog, visited_urls>>

\* read_posts: one turn of while count < max_topics
RdUnread ==
    /\ rdKind = "unread" /\ rdPc = "loop"
    /\ Len(rdLog) < MaxIter
    /\ UNCHANGED <<browserVars, harnessVars, arVars, lkVars, otherVars,
                   rdKind, listed0>>
    /\ IF ~(count < MaxTopics)
       THEN RdReturn(rdListFailed)
       ELSE \/ \* TimeoutException waiting for .topic-list: break
               RdReturn(TRUE)
            \/ LET badge == get_first_unread_badge(listed)
               IN  IF badge = None
                   THEN RdReturn(rdListFailed)
                   ELSE /\ \E outcome \in OpenOutcomes, stays \in BOOLEAN :
                              RdOpened(badge, outcome, stays)
                        /\ UNCHANGED visited_urls

\* read_new_posts: one turn of while count < max_new_topics
RdNew ==
    /\ rdKind = "new" /\ rdPc = "loop"
    /\ Len(rdLog) < MaxIter
    /\ UNCHANGED <<browserVars, harnessVars, arVars, lkVars, otherVars,
                   rdKind, listed0>>
    /\ IF ~(count < MaxTopics)
       THEN RdReturn(rdListFailed)
       ELSE \/ \* TimeoutException waiting for .topic-list: break
               RdReturn(TRUE)
            \/ LET topic_link == get_first_new_topic(listed, visited_urls)
               IN  IF topic_link = None
                   THEN RdReturn(rdListFailed)
                   ELSE /\ visited_urls' = visited_urls \cup {topic_link}
                        /\ \E outcome \in OpenOutcomes, stays \in BOOLEAN :
                              RdOpened(topic_link, outcome, stays)

RdNext == RdUnread \/ RdNew

SpecRead == RdInit /\ [][RdNext]_vars

\* read_new_posts alone, run to its end: every browser operation returns, so
\* every turn ends
RdNewInit == RdInit /\ rdKind = "new"

SpecReadNew == RdNewInit /\ [][RdNew]_vars /\ WF_vars(RdNew)

\* read_posts, run without end: the traversal with no record of its past
\* turns, a turn taken in two steps
RdLiveInit == RdInit /\ rdKind = "unread"

\* read_posts: the first half of a turn, from the loop condition to the
\* badge found on the reloaded /unread page
RdLiveList ==
    /\ rdKind = "unread" /\ rdPc = "loop"
    /\ UNCHANGED <<browserVars, harnessVars, arVars, lkVars, otherVars,
                   rdKind, listed0, visited_urls, count, listed, rdLog>>
    /\ IF ~(count < MaxTopics)
       THEN rdPc' = "done" /\ UNCHANGED rdListFailed
       ELSE \/ rdPc' = "done" /\ rdListFailed' = TRUE
            \/ /\ rdPc' = (IF get_first_unread_badge(listed) = None
                           THEN "done" ELSE "topic")
               /\ UNCHANGED rdListFailed

\* read_posts: the second half of a turn, the try block on the badge
RdLiveTopic ==
    /\ rdKind = "unread" /\ rdPc = "topic"
    /\ UNCHANGED <<browserVars, harnessVars, arVars, lkVars, otherVars,
                   rdKind, listed0, visited_urls, rdLog, rdListFailed>>
    /\ rdPc' = "loop"
    /\ LET badge == get_first_unread_badge(listed)
       IN  \E outcome \in OpenOutcomes, stays \in BOOLEAN :
              /\ count' = IF outcome = "consumed" THEN count + 1 ELSE count
              /\ listed' = IF stays THEN listed ELSE listed \ {badge}

RdLiveNext == RdLiveList \/ RdLiveTopic

\* every browser operation returns, so every half turn ends
SpecReadLive ==
    RdLiveInit /\ [][RdLiveNext]_vars
    /\ WF_vars(RdLiveList) /\ WF_vars(RdLiveTopic)

-----------------------------------------------------------------------------
(* The reaction loop: random_like *)

\* the page coordinates a like button can report
Coords == {1, 11}
Locations == [x : Coords, y : Coords]

\* an element whose .location raises (it went stale)
Stale == [loc |-> [x |-> 0, y |-> 0], stale |-> TRUE]

\* the elements find_likeable_elements can return
LikeElements == [loc : Locations, stale : {FALSE}] \cup {Stale}

\* pos_key = f"{loc['x']},{loc['y']}"
pos_key(loc) == ToString(loc.x) \o "," \o ToString(loc.y)

\* the keys of the elements of a query whose location can be read
KeysOf(like_containers) ==
    {pos_key(e.loc) : e \in like_containers \ {Stale}}

\* the list available, built with no filter on liked_positions
AvailableNoFilter(like_containers, positions) ==
    {<<e, pos_key(e.loc)>> : e \in like_containers \ {Stale}}

\* the list available: the (elem, pos_key) pairs of the elements whose
\* location reads and whose key is not in liked_positions
Available(like_containers, positions) ==
    {<<e, pos_key(e.loc)>> :
        e \in {d \in like_containers \ {Stale} :
                  pos_key(d.loc) \notin positions}}

\* how the scroll and the two clicks on the selected element can end: the
\* regular click works; it raises and the script click works; the scroll or
\* both clicks raise
ClickOutcomes == {"clicked", "js_clicked", "raised"}

\* the loop condition with the attempt budget left out
like_loop_no_budget(l, lc, a, max_attempts) == l < lc

\* while liked < like_count and attempts < max_attempts
like_loop_continues(l, lc, a, max_attempts) == l < lc /\ a < max_attempts

LkInit ==
    /\ handles = <<1>>
    /\ cur = 1
    /\ page = [h \in Handles |-> BlankPage]
    /\ jar = {}
    /\ tabRun = <<>>
    /\ ckRun = <<>>
    /\ ArIdle
    /\ RdIdle
    /\ OtherIdle
    /\ lkPc = "loop"
    /\ \E max_likes \in 1..MaxLikes : like_count \in {max_likes - 1, max_likes}
    /\ liked = 0
    /\ liked_positions = {}
    /\ attempts = 0
    /\ lkLog = <<>>
    /\ lkOffered = {}

\* the loop ends: its condition is false or a break
LkReturn ==
    /\ lkPc' = "done"
    /\ UNCHANGED <<liked, liked_positions, lkLog>>

\* random_like: one turn of while liked < like_count and attempts < max_attempts
LkTurn ==
    /\ lkPc = "loop"
    /\ UNCHANGED <<browserVars, harnessVars, arVars, rdVars, otherVars,
                   like_count>>
    /\ LET max_attempts == like_count * 3
       IN  IF ~like_loop_continues(liked, like_count, attempts, max_attempts)
           THEN LkReturn /\ UNCHANGED <<attempts, lkOffered>>
           ELSE /\ attempts' = attempts + 1
                /\ \E like_containers \in SUBSET LikeElements :
                     /\ lkOffered' = KeysOf(like_containers)
                     /\ LET available ==
                                Available(like_containers, liked_positions)
                        IN  IF like_containers = {} \/ available = {}
                            THEN LkReturn
                            ELSE \E choice \in available,
                                    outcome \in ClickOutcomes :
                                   /\ liked_positions' =
                                         liked_positions \cup {choice[2]}
                                   /\ lkLog' = Append(lkLog,
                                         [pos_key |-> choice[2],
                                          outcome |-> outcome])
                                   /\ liked' = IF outcome = "raised"
                                               THEN liked
                                               ELSE liked + 1
                                   /\ UNCHANGED lkPc

LkNext == LkTurn

SpecLike == LkInit /\ [][LkNext]_vars

\* the interpreter runs the loop: a turn that can be taken is taken
SpecLikeFair == SpecLike /\ WF_vars(LkTurn)

-----------------------------------------------------------------------------
(* The locator resolvers: get_first_unread_badge, get_first_new_topic,     *)
(* find_likeable_elements                                                  *)

\* the selectors list of get_first_unread_badge; one more query follows it
NumSelectors == 4

\* find_likeable_elements: the primary selector and fallback_selectors
NumLikeSelectors == 3

\* what is_displayed() of an element gives: True, False, or it raises (the
\* element went stale, and with it every other call on it)
Shown == {"visible", "hidden", "raises"}

\* the href of a link: None or a topic
Hrefs == {None, 1, 2}

\* the elements find_elements can return for candidate idx, n of them.
\* unliked: c.find_element(By.CSS_SELECTOR, "svg.d-icon-d-unliked") finds
\* the icon in the element, or raises for want of it
ElementsAt(idx, n, hrefs, icons) ==
    {[i \in 1..n |-> [cand |-> idx, pos |-> i, shown |-> f[i].shown,
                       href |-> f[i].href, unliked |-> f[i].unliked]] :
        f \in [1..n -> [shown : Shown, href : hrefs, unliked : icons]]}

\* what one find_elements call can do: raise, or return a list of at most
\* MaxElems elements (the icon matters for the reaction containers only;
\* the fallback selectors carry :not(.has-like):not(.my-likes))
Queries(idx, hrefs) ==
    LET icons == IF lcKind = "likes" /\ idx = 1 THEN BOOLEAN ELSE {TRUE}
    IN  {[raises |-> TRUE, els |-> <<>>]} \cup
        {[raises |-> FALSE, els |-> e] :
            e \in UNION {ElementsAt(idx, n, hrefs, icons) : n \in 0..MaxElems}}

Raise == [kind |-> "raise"]
Found(e) == [kind |-> "elem", elem |-> e]
ListOf(els) == [kind |-> "list", elems |-> els]

\* for elem in elements: if elem.is_displayed(): return elem
RECURSIVE ScanDisplayed(_, _)
ScanDisplayed(els, i) ==
    IF i > Len(els) THEN NoElement
    ELSE IF els[i].shown = "raises" THEN Raise
    ELSE IF els[i].shown = "visible" THEN Found(els[i])
    ELSE ScanDisplayed(els, i + 1)

\* the body of one try of get_first_unread_badge: query, then scan
badge_candidate(q) == IF q.raises THEN Raise ELSE ScanDisplayed(q.els, 1)

\* for link in topic_links: href = link.get_attribute('href'); if href and
\* href not in visited_urls and link.is_displayed(): return link
RECURSIVE ScanLinks(_, _, _)
ScanLinks(els, visited, i) ==
    IF i > Len(els) THEN NoElement
    ELSE IF els[i].shown = "raises" THEN Raise
    ELSE IF els[i].href # None /\ els[i].href \notin visited
            /\ els[i].shown = "visible" THEN Found(els[i])
    ELSE ScanLinks(els, visited, i + 1)

\* the body of the try of get_first_new_topic
topic_candidate(q, visited) ==
    IF q.raises THEN Raise ELSE ScanLinks(q.els, visited, 1)

\* the primary selector without the look for the unliked icon
primary_candidate_any(q) ==
    IF q.raises THEN Raise
    ELSE ListOf(SelectSeq(q.els, LAMBDA c : c.shown = "visible"))

\* the primary selector of find_likeable_elements: each container in a try
\* of its own, appended when displayed and showing the unliked icon
primary_candidate(q) ==
    IF q.raises THEN Raise
    ELSE ListOf(SelectSeq(q.els, LAMBDA c : c.shown = "visible" /\ c.unliked))

\* a fallback selector: extend([b for b in buttons if b.is_displayed()])
fallback_candidate(q) ==
    IF q.raises \/ \E i \in DOMAIN q.els : q.els[i].shown = "raises"
    THEN Raise
    ELSE ListOf(SelectSeq(q.els, LAMBDA b : b.shown = "visible"))

\* a try whose exception is let through
try_no_except(r, handled) == r

\* try: r except Exception: handled
try_except(r, handled) == IF r.kind = "raise" THEN handled ELSE r

\* the first visible match of a query, whatever the elements before it do
FirstVisible(q, visited) ==
    LET m == SelectSeq(q.els, LAMBDA e : /\ e.shown = "visible"
                                          /\ e.unliked
                                          /\ e.href \notin visited
                                          /\ (lcKind = "topic" => e.href # None))
    IN  IF q.raises \/ m = <<>> THEN NoElement ELSE Found(m[1])

LcInit ==
    /\ handles = <<1>>
    /\ cur = 1
    /\ page = [h \in Handles |-> BlankPage]
    /\ jar = {}
    /\ tabRun = <<>>
    /\ ckRun = <<>>
    /\ ArIdle
    /\ RdIdle
    /\ LkIdle
    /\ WtIdle
    /\ MnIdle
    /\ SrIdle
    /\ SuIdle
    /\ lcKind \in {"badge", "topic", "likes"}
    /\ lcPc = "run"
    /\ lcIdx = 1
    /\ lcResult = NoResult
    /\ lcVisited \in SUBSET (Hrefs \ {None})
    /\ lcKind # "topic" => lcVisited = {}
    /\ lcFirstVisible = NoElement
    /\ lcRaised = FALSE
    /\ lcQuery = NoQuery

\* what the call has seen of the page, kept for the properties
LcSeen(q, r) ==
    /\ lcQuery' = q
    /\ lcRaised' = (lcRaised \/ r.kind = "raise"
                    \/ \E i \in DOMAIN q.els : q.els[i].shown = "raises")
    /\ lcFirstVisible' = IF lcFirstVisible = NoElement
                         THEN FirstVisible(q, lcVisited)
                         ELSE lcFirstVisible

\* the resolver returns res, or an exception leaves it
LcReturn(res) ==
    /\ lcPc' = "done"
    /\ lcResult' = res
    /\ UNCHANGED lcIdx

\* get_first_unread_badge: one candidate of the chain (a selector of the
\* list, or the last query after it)
LcBadge ==
    /\ lcKind = "badge" /\ lcPc = "run"
    /\ UNCHANGED <<browserVars, harnessVars, arVars, rdVars, lkVars, srVars, suVars, wtVars,
                   mnVars, lcKind, lcVisited>>
    /\ \E q \in Queries(lcIdx, {None}) :
         LET r == try_except(badge_candidate(q), NoElement)
         IN  /\ LcSeen(q, badge_candidate(q))
             /\ IF r.kind \in {"elem", "raise"}
                THEN LcReturn(r)
                ELSE IF lcIdx = NumSelectors + 1
                     THEN LcReturn(NoElement)
                     ELSE /\ lcIdx' = lcIdx + 1
                          /\ UNCHANGED <<lcPc, lcResult>>

\* get_first_new_topic(visited_urls)
LcTopic ==
    /\ lcKind = "topic" /\ lcPc = "run"
    /\ UNCHANGED <<browserVars, harnessVars, arVars, rdVars, lkVars, srVars, suVars, wtVars,
                   mnVars, lcKind, lcVisited>>
    /\ \E q \in Queries(lcIdx, Hrefs) :
         LET r == try_except(topic_candidate(q, lcVisited), NoElement)
         IN  /\ LcSeen(q, topic_candidate(q, lcVisited))
             /\ LcReturn(r)

\* find_likeable_elements: the primary selector, then, with nothing found,
\* the fallback selectors
LcLikes ==
    /\ lcKind = "likes" /\ lcPc = "run"
    /\ UNCHANGED <<browserVars, harnessVars, arVars, rdVars, lkVars, srVars, suVars, wtVars,
                   mnVars, lcKind, lcVisited>>
    /\ \E q \in Queries(lcIdx, {None}) :
         LET body == IF lcIdx = 1 THEN primary_candidate(q)
                     ELSE fallback_candidate(q)
             r == try_except(body, ListOf(<<>>))
             like_containers == IF lcIdx = 1 THEN <<>> ELSE lcResult.elems
         IN  /\ LcSeen(q, body)
             /\ IF r.kind = "raise"
                THEN LcReturn(r)
                ELSE LET ext == ListOf(like_containers \o r.elems)
                     IN  IF (lcIdx = 1 /\ ext.elems # <<>>)
                            \/ lcIdx = NumLikeSelectors
                         THEN LcReturn(ext)
                         ELSE /\ lcIdx' = lcIdx + 1
                              /\ lcResult' = ext
                              /\ UNCHANGED lcPc

LcNext == LcBadge \/ LcTopic \/ LcLikes

SpecLocate == LcInit /\ [][LcNext]_vars

-----------------------------------------------------------------------------
(* The polling waits: handle_cloudflare and the proof-of-work wait of      *)
(* qaqal_checkin                                                           *)

\* for i in range(30)
cf_polls == 30

\* max_wait = 300; poll_interval = 3
max_wait == 300
poll_interval == 3

\* what reading driver.title gives: a challenge title, another title, or
\* it raises
Titles == {"challenge", "clear", "raises"}

\* what looking at the submit button gives: enabled, still disabled, or a
\* call on it raises
ButtonStates == {"enabled", "disabled", "raises"}

\* a wait loop that never ends by itself
pow_continues_always(elapsed) == TRUE

\* while elapsed < max_wait
pow_continues(elapsed) == elapsed < max_wait

WtInit ==
    /\ handles = <<1>>
    /\ cur = 1
    /\ page = [h \in Handles |-> BlankPage]
    /\ jar = {}
    /\ tabRun = <<>>
    /\ ckRun = <<>>
    /\ ArIdle
    /\ RdIdle
    /\ LkIdle
    /\ LcIdle
    /\ MnIdle
    /\ SrIdle
    /\ SuIdle
    /\ \/ wtKind = "cloudflare" /\ wtPc = "start"
       \/ wtKind = "pow" /\ wtPc = "loop"
    /\ wtI = 0
    /\ wtPolls = 0
    /\ wtOut = "none"
    /\ wtSubmit = [clicked |-> FALSE, ret |-> "none"]

\* the wait ends with outcome out
WtEnd(out) ==
    /\ wtPc' = "done"
    /\ wtOut' = out
    /\ UNCHANGED wtI

\* handle_cloudflare: title = self.driver.title and the test on it
WtCloudflareFirst ==
    /\ wtKind = "cloudflare" /\ wtPc = "start"
    /\ UNCHANGED <<browserVars, harnessVars, arVars, rdVars, lkVars, srVars, suVars, lcVars,
                   mnVars, wtKind, wtSubmit>>
    /\ wtPolls' = wtPolls + 1
    /\ \E title \in Titles :
         CASE title = "raises" -> WtEnd("caught")
           [] title = "clear"  -> WtEnd("no_challenge")
           [] OTHER            -> /\ wtPc' = "loop"
                                  /\ UNCHANGED <<wtI, wtOut>>

\* handle_cloudflare: one turn of for i in range(30), or its end
WtCloudflarePoll ==
    /\ wtKind = "cloudflare" /\ wtPc = "loop"
    /\ UNCHANGED <<browserVars, harnessVars, arVars, rdVars, lkVars, srVars, suVars, lcVars,
                   mnVars, wtKind, wtSubmit>>
    /\ IF wtI < cf_polls
       THEN /\ wtPolls' = wtPolls + 1
            /\ \E new_title \in Titles :
                 CASE new_title = "raises" -> WtEnd("caught")
                   [] new_title = "clear"  -> WtEnd("cleared")
                   [] OTHER                -> /\ wtI' = wtI + 1
                                              /\ UNCHANGED <<wtPc, wtOut>>
       ELSE WtEnd("timeout") /\ UNCHANGED wtPolls

\* qaqal_checkin: one turn of while elapsed < max_wait, or its else
WtPow ==
    /\ wtKind = "pow" /\ wtPc = "loop"
    /\ UNCHANGED <<browserVars, harnessVars, arVars, rdVars, lkVars, srVars, suVars, lcVars,
                   mnVars, wtKind, wtSubmit>>
    /\ IF pow_continues(wtI)
       THEN /\ wtPolls' = wtPolls + 1
            /\ \E button \in ButtonStates :
                 IF button = "enabled"
                 THEN WtEnd("enabled")
                 ELSE /\ wtI' = wtI + poll_interval
                      /\ UNCHANGED <<wtPc, wtOut>>
       ELSE WtEnd("timeout") /\ UNCHANGED wtPolls

\* a qaqal_checkin that goes on to step 9 whatever ended the loop
after_pow_always(out) ==
    {[clicked |-> TRUE, ret |-> "True"], [clicked |-> TRUE, ret |-> "False"]}

\* qaqal_checkin after the loop.  Left by break: step 9 clicks submitPowBtn
\* and step 10 returns True, unless the click or the read of the page
\* raises (return False).  Left by its condition: the else of the while
\* returns False.
after_pow(out) ==
    IF out = "enabled"
    THEN {[clicked |-> TRUE, ret |-> "True"], [clicked |-> TRUE, ret |-> "False"]}
    ELSE {[clicked |-> FALSE, ret |-> "False"]}

\* qaqal_checkin: from the end of the loop to the return
WtSubmit ==
    /\ wtKind = "pow" /\ wtPc = "done"
    /\ wtSubmit.ret = "none"
    /\ wtSubmit' \in after_pow(wtOut)
    /\ UNCHANGED <<browserVars, harnessVars, arVars, rdVars, lkVars, srVars, suVars, lcVars,
                   mnVars, wtKind, wtPc, wtI, wtPolls, wtOut>>

WtNext == WtCloudflareFirst \/ WtCloudflarePoll \/ WtPow \/ WtSubmit

SpecWait == WtInit /\ [][WtNext]_vars

\* the interpreter runs the loops: a turn that can be taken is taken
SpecWaitFair == SpecWait /\ WF_vars(WtNext)

-----------------------------------------------------------------------------
(* main: the configurations and, for linux.do, the chain of check-ins      *)

\* TARGET_URL and TARGET_URL_2: at most two configs
NumConfigs == 2

\* how _setup_driver can end: it returns; uc.Chrome raises, so that no
\* driver was created; the login or the browsing raises on the created driver
SetupOutcomes == {"ok", "no_driver", "failed"}

\* what a check-in returns on the session it finds: every browser call on a
\* session that was quit or never created raises inside the check-in's try
CheckinResults == IF mnDriver = "open" THEN {"True", "False"} ELSE {"False"}

Event(what, res) == [cfg |-> mnIdx, what |-> what, res |-> res]

MnInit ==
    /\ handles = <<1>>
    /\ cur = 1
    /\ page = [h \in Handles |-> BlankPage]
    /\ jar = {}
    /\ tabRun = <<>>
    /\ ckRun = <<>>
    /\ ArIdle
    /\ RdIdle
    /\ LkIdle
    /\ LcIdle
    /\ WtIdle
    /\ SrIdle
    /\ SuIdle
    /\ mnPc = "loop"
    /\ mnConfigs \in UNION {[1..n -> BOOLEAN] : n \in 0..NumConfigs}
    /\ mnIdx = 0
    /\ mnDriver = "none"
    /\ mnLog = <<>>
    /\ mnExit = 0

\* start_without_quit raised and nothing in main catches it before the
\* handler of the whole config
after_forum_uncaught(raised) == IF raised THEN "loop" ELSE "tunehub"

\* try: bot.start_without_quit() except Exception: log, go on to the
\* check-ins
after_forum(raised) == "tunehub"

\* a main that takes every config for a linux.do one
first_workflow_linux_do(is_linux_do) == "forum"

\* if is_linux_do: bot.start_without_quit() and the check-ins, else:
\* bot.start()
first_workflow(is_linux_do) == IF is_linux_do THEN "forum" ELSE "start"

\* for cfg in configs: the next config and a new bot, or the end of main
MnLoop ==
    /\ mnPc = "loop"
    /\ UNCHANGED <<browserVars, harnessVars, arVars, rdVars, lkVars, srVars, suVars, lcVars,
                   wtVars, mnConfigs, mnLog, mnExit>>
    /\ IF mnIdx < Len(mnConfigs)
       THEN /\ mnIdx' = mnIdx + 1
            /\ mnDriver' = "none"
            /\ mnPc' = first_workflow(mnConfigs[mnIdx + 1])
       ELSE /\ mnPc' = "exit"
            /\ UNCHANGED <<mnIdx, mnDriver>>

\* bot.start_without_quit() in its try: on an exception it quits the driver
\* it has, and raises
MnForum ==
    /\ mnPc = "forum"
    /\ UNCHANGED <<browserVars, harnessVars, arVars, rdVars, lkVars, srVars, suVars, lcVars,
                   wtVars, mnConfigs, mnIdx, mnExit>>
    /\ \E setup \in SetupOutcomes :
         /\ mnDriver' = CASE setup = "ok" -> "open"
                          [] setup = "no_driver" -> "none"
                          [] OTHER -> "quit"
         /\ mnLog' = CASE setup = "ok" -> Append(mnLog, Event("forum", "ok"))
                       [] setup = "no_driver" ->
                            Append(mnLog, Event("forum", "raised"))
                       [] OTHER ->
                            mnLog \o <<Event("forum", "raised"),
                                       Event("quit", "-")>>
         /\ mnPc' = after_forum(setup # "ok")

\* bot.tunehub_checkin() in its try
MnTunehub ==
    /\ mnPc = "tunehub"
    /\ UNCHANGED <<browserVars, harnessVars, arVars, rdVars, lkVars, srVars, suVars, lcVars,
                   wtVars, mnConfigs, mnIdx, mnExit, mnDriver>>
    /\ \E res \in CheckinResults : mnLog' = Append(mnLog, Event("tunehub", res))
    /\ mnPc' = "anyrouter"

\* bot.anyrouter_checkin() in its try; False is the exhaustion of its
\* attempts
MnAnyrouter ==
    /\ mnPc = "anyrouter"
    /\ UNCHANGED <<browserVars, harnessVars, arVars, rdVars, lkVars, srVars, suVars, lcVars,
                   wtVars, mnConfigs, mnIdx, mnExit, mnDriver>>
    /\ \E res \in CheckinResults :
         mnLog' = Append(mnLog, Event("anyrouter", res))
    /\ mnPc' = "qaqal"

\* bot.qaqal_checkin() in its try, and the finally that quits bot.driver
MnQaqal ==
    /\ mnPc = "qaqal"
    /\ UNCHANGED <<browserVars, harnessVars, arVars, rdVars, lkVars, srVars, suVars, lcVars,
                   wtVars, mnConfigs, mnIdx, mnExit>>
    /\ \E res \in CheckinResults :
         mnLog' = IF mnDriver = "none"
                  THEN Append(mnLog, Event("qaqal", res))
                  ELSE mnLog \o <<Event("qaqal", res), Event("quit", "-")>>
    /\ mnDriver' = IF mnDriver = "none" THEN "none" ELSE "quit"
    /\ mnPc' = "loop"

\* bot.start() for another forum: the finally quits the driver it has, an
\* exception goes to the handler of the whole config
MnStart ==
    /\ mnPc = "start"
    /\ UNCHANGED <<browserVars, harnessVars, arVars, rdVars, lkVars, srVars, suVars, lcVars,
                   wtVars, mnConfigs, mnIdx, mnExit>>
    /\ \E setup \in SetupOutcomes :
         /\ mnDriver' = IF setup = "no_driver" THEN "none" ELSE "quit"
         /\ mnLog' = CASE setup = "ok" ->
                            mnLog \o <<Event("start", "ok"),
                                       Event("quit", "-")>>
                       [] setup = "no_driver" ->
                            Append(mnLog, Event("start", "raised"))
                       [] OTHER ->
                            mnLog \o <<Event("start", "raised"),
                                       Event("quit", "-")>>
    /\ mnPc' = "loop"

MnNext == MnLoop \/ MnForum \/ MnTunehub \/ MnAnyrouter \/ MnQaqal \/ MnStart

SpecMain == MnInit /\ [][MnNext]_vars

-----------------------------------------------------------------------------
(* simulate_reading: scroll down until the bottom held or the time is up   *)

\* max_time = 300: the seconds the loop may take
max_time == 300

\* if bottom_count >= 3: the at-bottom checks in a row that end the loop
bottom_needed == 3

\* the whole seconds one turn takes: pause = random.uniform(3.5, 5.0), then
\* time.sleep(0.5) after the scroll
Pauses == {4, 5}

\* what the two reads of one turn give: (scroll_y + viewport_height) >=
\* (scroll_height - 50) or not, or execute_script raises
Checks == {"bottom", "above", "raises"}

\* window.scrollBy through execute_script: it returns or raises
Scrolls == {"ok", "raises"}

\* if at bottom: bottom_count += 1, else: bottom_count = 0
bottom_count_next(at_bottom, bc) == IF at_bottom THEN bc + 1 ELSE 0

\* the latest bottom_needed checks
Latest(s) ==
    IF Len(s) > bottom_needed
    THEN SubSeq(s, Len(s) - bottom_needed + 1, Len(s))
    ELSE s

SrInit ==
    /\ handles = <<1>>
    /\ cur = 1
    /\ page = [h \in Handles |-> BlankPage]
    /\ jar = {}
    /\ tabRun = <<>>
    /\ ckRun = <<>>
    /\ ArIdle
    /\ RdIdle
    /\ LkIdle
    /\ LcIdle
    /\ WtIdle
    /\ MnIdle
    /\ SuIdle
    /\ srPc = "loop"
    /\ srElapsed = 0
    /\ bottom_count = 0
    /\ srLast = <<>>
    /\ srOut = "none"

\* the loop is left: by break or by its condition to the lines after it, by
\* an exception out of simulate_reading, there being no try in it
SrEnd(out) ==
    /\ srOut' = out
    /\ srPc' = IF out = "raised" THEN "done" ELSE "after"

\* one turn of while (time.time() - start_time) < max_time
SrTurn ==
    /\ srPc = "loop"
    /\ UNCHANGED <<browserVars, harnessVars, arVars, rdVars, lkVars, lcVars,
                   wtVars, mnVars, suVars>>
    /\ IF srElapsed < max_time
       THEN \E pause \in Pauses, check \in Checks, scroll \in Scrolls :
              /\ srElapsed' = srElapsed + pause
              /\ IF check = "raises"
                 THEN /\ SrEnd("raised")
                      /\ UNCHANGED <<bottom_count, srLast>>
                 ELSE /\ srLast' = Latest(Append(srLast, check = "bottom"))
                      /\ bottom_count' =
                           bottom_count_next(check = "bottom", bottom_count)
                      /\ IF bottom_count' >= bottom_needed
                         THEN SrEnd("bottom")
                         ELSE IF scroll = "raises"
                              THEN SrEnd("raised")
                              ELSE UNCHANGED <<srPc, srOut>>
       ELSE /\ SrEnd("timeout")
            /\ UNCHANGED <<srElapsed, bottom_count, srLast>>

\* after the loop: self.random_like() and the last sleep
SrAfter ==
    /\ srPc = "after"
    /\ srPc' = "done"
    /\ UNCHANGED <<browserVars, harnessVars, arVars, rdVars, lkVars, lcVars,
                   wtVars, mnVars, suVars, srElapsed, bottom_count, srLast, srOut>>

SrNext == SrTurn \/ SrAfter

SpecScroll == SrInit /\ [][SrNext]_vars

-----------------------------------------------------------------------------
(* _setup_driver: launch the browser, log in, read the two lists           *)

\* the name=value chunks of cookie_str, at most
MaxChunks == 2

\* username, password, cookie_str as given or not (None or empty), and the
\* chunks of cookie_str that hold a name and a value
Configs ==
    {c \in [username : BOOLEAN, password : BOOLEAN, cookie : BOOLEAN,
            chunks : 0..MaxChunks] : c.chunks > 0 => c.cookie}

\* if self.username and self.password: ... elif self.cookie_str: ... else
login_method(c) ==
    IF c.username /\ c.password THEN "credentials"
    ELSE IF c.cookie THEN "cookies"
    ELSE "none"

\* a login that goes on to the lists whatever its wait came to
after_login_unchecked(marker) == "read_posts"

\* wait.until(presence of "current-user") returned: the login method
\* returns; TimeoutException: raise Exception("... login failed")
after_login(marker) == IF marker THEN "read_posts" ELSE "raised"

\* how the wait for the logged-in marker ends, or an operation before it
\* raises (the login form is missing, a navigation fails)
LoginOutcomes == {"marker", "timeout", "raised_before"}

\* add_cookie events so far
CookiesTried ==
    Len(SelectSeq(suLog, LAMBDA e : e \in {"cookie_added", "cookie_refused"}))

SuInit ==
    /\ handles = <<1>>
    /\ cur = 1
    /\ page = [h \in Handles |-> BlankPage]
    /\ jar = {}
    /\ tabRun = <<>>
    /\ ckRun = <<>>
    /\ ArIdle
    /\ RdIdle
    /\ LkIdle
    /\ LcIdle
    /\ WtIdle
    /\ MnIdle
    /\ SrIdle
    /\ suPc = "launch"
    /\ suCfg \in Configs
    /\ suLog = <<>>

SuKeep ==
    UNCHANGED <<browserVars, harnessVars, arVars, rdVars, lkVars, lcVars,
                wtVars, mnVars, srVars, suCfg>>

\* uc.Chrome(...) and the calls up to the user agent: they return, or raise
SuLaunch ==
    /\ suPc = "launch"
    /\ SuKeep
    /\ \/ /\ suPc' = "login"
          /\ suLog' = Append(suLog, "launched")
       \/ /\ suPc' = "raised"
          /\ UNCHANGED suLog

\* "Perform login": the method is chosen, or there is none
SuLogin ==
    /\ suPc = "login"
    /\ SuKeep
    /\ LET method == login_method(suCfg)
       IN  IF method = "none"
           THEN \* raise Exception("No authentication method provided")
                /\ suPc' = "raised"
                /\ UNCHANGED suLog
           ELSE /\ suPc' = method
                /\ suLog' = Append(suLog, method)

\* login_with_credentials
SuCredentials ==
    /\ suPc = "credentials"
    /\ SuKeep
    /\ \E outcome \in LoginOutcomes :
         /\ suPc' = IF outcome = "raised_before" THEN "raised"
                    ELSE after_login(outcome = "marker")
         /\ suLog' = IF outcome = "marker"
                     THEN Append(suLog, "logged_in") ELSE suLog

\* login_with_cookies: one chunk of cookie_str; add_cookie raising is
\* logged and the loop goes on
SuAddCookie ==
    /\ suPc = "cookies"
    /\ CookiesTried < suCfg.chunks
    /\ SuKeep
    /\ UNCHANGED suPc
    /\ \E e \in {"cookie_added", "cookie_refused"} : suLog' = Append(suLog, e)

\* login_with_cookies: refresh and wait for the marker
SuCookieWait ==
    /\ suPc = "cookies"
    /\ CookiesTried = suCfg.chunks
    /\ SuKeep
    /\ \E outcome \in LoginOutcomes :
         /\ suPc' = IF outcome = "raised_before" THEN "raised"
                    ELSE after_login(outcome = "marker")
         /\ suLog' = IF outcome = "marker"
                     THEN Append(suLog, "logged_in") ELSE suLog

\* self.read_posts(): it returns, or a call outside its try raises
SuReadPosts ==
    /\ suPc = "read_posts"
    /\ SuKeep
    /\ suLog' = Append(suLog, "read_posts")
    /\ suPc' \in {"read_new_posts", "raised"}

\* self.read_new_posts()
SuReadNewPosts ==
    /\ suPc = "read_new_posts"
    /\ SuKeep
    /\ suLog' = Append(suLog, "read_new_posts")
    /\ suPc' \in {"done", "raised"}

SuNext ==
    \/ SuLaunch \/ SuLogin \/ SuCredentials \/ SuAddCookie \/ SuCookieWait
    \/ SuReadPosts \/ SuReadNewPosts

SpecSetup == SuInit /\ [][SuNext]_vars

-----------------------------------------------------------------------------
(* Claims *)

LastTab == tabRun[Len(tabRun)]

\* C3: for every cookie jar, also one in which cookies of different domains
\* share a name, the reset removes every cookie whose domain contains
\* 'anyrouter' and leaves every cookie of every other domain in the jar.
C3_ResetScopedToDomain ==
    ckRun # <<>> =>
        jar = {c \in ckRun[1].before : ~InDomain("anyrouter", c.domain)}

\* C4: after _cleanup_tabs(keep) on a non-empty window set, for every keep
\* (also one that is no longer open), at least one window is open and the
\* active window is one of the open windows.
C4_NeverZeroWindows ==
    tabRun # <<>> =>
        /\ Len(handles) >= 1
        /\ cur \in Range(handles)

\* C5: for every window set containing keep, a second _cleanup_tabs(keep)
\* right after the first leaves the state of the first: exactly one open
\* window, keep, which is the active one.
C5_CleanupIdempotent ==
    (/\ Len(tabRun) = 2
     /\ tabRun[1].keep = tabRun[2].keep
     /\ tabRun[1].keep \in Range(tabRun[1].before))
    => /\ tabRun[2].after = tabRun[1].after
       /\ tabRun[2].active = tabRun[1].active
       /\ tabRun[2].after = <<tabRun[2].keep>>
       /\ tabRun[2].active = tabRun[2].keep
       /\ ~tabRun[1].raised /\ ~tabRun[2].raised

\* C5 witness: the first call closed two other windows, the second followed
C5_Witness ==
    /\ Len(tabRun) = 2
    /\ tabRun[1].keep = tabRun[2].keep
    /\ tabRun[1].keep \in Range(tabRun[1].before)
    /\ Len(tabRun[1].before) >= 3
    /\ tabRun[1].before[1] # tabRun[1].keep

-----------------------------------------------------------------------------
(* Claims on the AnyRouter sign-in *)

LastOutcome == outcomes[Len(outcomes)]

\* attempt, reset, attempt, ... : k attempts with a reset between each two
Alternating(k) ==
    [i \in 1..(2 * k - 1) |-> IF i % 2 = 1 THEN "attempt" ELSE "reset"]

Classified == arPc \in {"ret", "done"} /\ att.phase = "classified"

\* the windows the scan read whose URL matches the success pattern
SeenSuccess == {h \in att.open : HasSuccessPattern(att.shown[h].url)}

\* the windows the scan read that are Failure: no success URL, and error
\* text in the body or a URL on anyrouter.top containing /login
SeenFailure ==
    {h \in att.open :
        /\ ~HasSuccessPattern(att.shown[h].url)
        /\ \/ att.shown[h].err
           \/ OnAnyrouter(att.shown[h].url) /\ HasLogin(att.shown[h].url)}

\* C1: if attempts 1..k-1 fail and attempt k succeeds, exactly k attempts
\* and k-1 resets run, each reset between two attempts, nothing runs after
\* the successful attempt, and anyrouter_checkin returns success.
C1_SuccessAtAttemptK ==
    \A k \in 1..max_retries :
        (/\ Len(outcomes) >= k
         /\ outcomes[k]
         /\ \A i \in 1..(k - 1) : ~outcomes[i])
        => /\ Len(outcomes) = k
           /\ arLog = Alternating(k)
           /\ arPc \in {"ret", "done"}
           /\ (arPc = "done" => arReturn = "success")

\* C1 witness: failure, failure, success; two resets; success returned
C1_Witness ==
    /\ arPc = "done"
    /\ outcomes = <<FALSE, FALSE, TRUE>>
    /\ arReturn = "success"
    /\ Len(SelectSeq(arLog, LAMBDA e : e = "reset")) = 2

\* C2: if every attempt fails, exactly 3 attempts and 2 resets run, no
\* reset after the third attempt, and anyrouter_checkin returns failure;
\* never more than 3 attempts.
C2_AllAttemptsFail ==
    /\ Len(outcomes) <= max_retries
    /\ (arPc = "done" /\ \A i \in DOMAIN outcomes : ~outcomes[i])
       => /\ Len(outcomes) = max_retries
          /\ arLog = Alternating(max_retries)
          /\ arReturn = "failure"
    /\ (Len(outcomes) = max_retries /\ \A i \in DOMAIN outcomes : ~outcomes[i])
       => arLog = Alternating(max_retries)

\* C2 witness: three failed attempts, failure returned
C2_Witness ==
    /\ arPc = "done"
    /\ outcomes = <<FALSE, FALSE, FALSE>>
    /\ arReturn = "failure"

\* C6: for every set of windows the scan reads and every order, if a
\* window's URL matches the success pattern the attempt is Success whatever
\* error text or login redirect the windows show, and after consolidation
\* the success window is the only open window and the active one (the
\* window set being the one the scan read: no window closed by itself).
C6_SuccessWindowWins ==
    (Classified /\ att.gone = NoWindow /\ SeenSuccess # {})
    => /\ LastOutcome
       /\ Len(handles) = 1
       /\ handles[1] \in SeenSuccess
       /\ cur = handles[1]
       /\ ~att.verified

\* C6 witness: three windows, one on the success URL, one with error text,
\* one undetermined; Success, the other two closed
C6_Witness ==
    /\ Classified /\ att.gone = NoWindow
    /\ Len(att.scanned) = 3
    /\ Cardinality(SeenSuccess) = 1
    /\ \E h \in SeenFailure : att.shown[h].err
    /\ \E h \in att.open : h \notin SeenSuccess \cup SeenFailure
    /\ att.scanned[1] \notin SeenSuccess
    /\ LastOutcome
    /\ Len(handles) = 1 /\ handles[1] \in SeenSuccess

\* C7 as claimed: no success window and a Failure window: the attempt is
\* failure, no verification navigation, and the window kept is the
\* Failure window.
C7_FailureWindowKept ==
    (Classified /\ att.gone = NoWindow /\ SeenSuccess = {} /\ SeenFailure # {})
    => /\ ~LastOutcome
       /\ ~att.verified
       /\ Len(handles) = 1
       /\ handles[1] \in SeenFailure

\* C7 amended: no success window and a Failure window: the attempt is
\* failure, no verification navigation, and the window kept is
\* original_window if it is still open, else the first open window; all
\* the others are closed.
C7_FailureKeepsOriginal ==
    (Classified /\ SeenSuccess = {} /\ SeenFailure # {})
    => /\ ~LastOutcome
       /\ ~att.verified
       /\ att.branch = "failure"
       /\ att.kept = IF original_window \in Range(att.after)
                     THEN original_window ELSE att.after[1]
       /\ handles = <<att.kept>>
       /\ cur = att.kept

\* C7 witness: the Failure window is not the original window; the original
\* window is the one left
C7_Witness ==
    /\ Classified /\ SeenSuccess = {} /\ SeenFailure # {}
    /\ original_window \notin SeenFailure
    /\ handles = <<original_window>>
    /\ ~LastOutcome

-----------------------------------------------------------------------------
(* Claims on the worklist traversals *)

\* the topics whose reading simulation completed
ConsumedTopics == {rdLog[i][1] : i \in {j \in DOMAIN rdLog : rdLog[j][2] = "consumed"}}

OpenedTopics == {rdLog[i][1] : i \in DOMAIN rdLog}

NoneFailed ==
    /\ ~rdListFailed
    /\ \A i \in DOMAIN rdLog : rdLog[i][2] = "consumed"

\* C8: within one traversal (read_posts as well as read_new_posts) a topic
\* that was opened, however that ended, is never opened again, also when
\* the reloaded list page lists it again as its first candidate.
C8_NeverOpenedAgain ==
    \A i, j \in DOMAIN rdLog : i # j => rdLog[i][1] # rdLog[j][1]

\* C9: a traversal capped at max_items never consumes more than max_items
\* topics; a topic counts as consumed only after its reading simulation
\* completed; with at least max_items topics available and none failing,
\* exactly max_items topics are consumed and the others are never opened.
C9_CapRespected ==
    /\ count <= MaxTopics
    /\ count = Len(SelectSeq(rdLog, LAMBDA e : e[2] = "consumed"))
    /\ (rdPc = "done" /\ NoneFailed /\ Cardinality(listed0) >= MaxTopics)
       => /\ Cardinality(ConsumedTopics) = MaxTopics
          /\ OpenedTopics = ConsumedTopics
          /\ Cardinality(listed0 \ OpenedTopics)
                = Cardinality(listed0) - MaxTopics

-----------------------------------------------------------------------------
(* Reaction selection *)

\* the keys selected so far
LikedKeys == {lkLog[i].pos_key : i \in DOMAIN lkLog}

\* C10: within one call of random_like no two selected targets have the
\* same position key, and liked_positions holds exactly the keys selected
\* so far, whether their click worked or failed and whatever the page
\* listed at each query.
C10_NoKeySelectedTwice ==
    /\ \A i, j \in DOMAIN lkLog :
          i # j => lkLog[i].pos_key # lkLog[j].pos_key
    /\ liked_positions = LikedKeys

\* a selection whose click failed, its key listed again by the next query,
\* and another target selected by that query
C10_Witness ==
    /\ Len(lkLog) >= 2
    /\ attempts = Len(lkLog)
    /\ lkLog[Len(lkLog) - 1].outcome = "raised"
    /\ lkLog[Len(lkLog) - 1].pos_key \in lkOffered

\* the turns of the loop that selected a target
Selections == Len(lkLog)

\* C11 (bounds): random_like never runs more than 3 x like_count turns of
\* its loop, and liked <= like_count and liked <= number of distinct
\* position keys selected <= number of turns, whatever the page does.
C11_Budget ==
    /\ attempts <= 3 * like_count
    /\ liked <= like_count
    /\ liked <= Cardinality(liked_positions)
    /\ Cardinality(liked_positions) <= attempts

\* C11: random_like terminates, within its budget of 3 x like_count turns,
\* for every behaviour of the page: no targets, targets exhausted before
\* like_count is reached, every click failing.
C11_Terminates == [](C11_Budget) /\ <>(lkPc = "done")

\* every click failed and the loop ended on its attempt budget
C11_Witness ==
    /\ lkPc = "done"
    /\ like_count >= 1
    /\ attempts = 3 * like_count
    /\ liked = 0
    /\ Selections = attempts

-----------------------------------------------------------------------------
(* Locator resolvers *)

LcDone(kind) == lcKind = kind /\ lcPc = "done"

\* get_first_unread_badge returns None or a visible element
BadgeNoneOrVisible ==
    LcDone("badge") =>
        \/ lcResult = NoElement
        \/ lcResult.kind = "elem" /\ lcResult.elem.shown = "visible"

\* C12: get_first_unread_badge returns None or a visible element, and if
\* any candidate query yielded a visible element, it returns the first
\* visible element of the earliest such candidate, also when an earlier
\* element or an earlier candidate raised.
C12_FirstVisibleOfEarliest ==
    /\ BadgeNoneOrVisible
    /\ (LcDone("badge") /\ lcFirstVisible # NoElement)
          => lcResult = lcFirstVisible

\* a resolver that returned did not let an exception through, and with no
\* visible match in any of its queries it returned None or an empty list
AbsenceIsAValue ==
    lcPc = "done" =>
        /\ lcResult # Raise
        /\ lcFirstVisible = NoElement
              => lcResult \in {NoElement, ListOf(<<>>)}

\* C13: the locator resolvers (get_first_unread_badge, get_first_new_topic,
\* find_likeable_elements) return None or an empty list when no candidate
\* yields a visible match or when the queries raise, never let an exception
\* through, and change nothing of the browser session.
C13_ResolversNeverRaise ==
    [](AbsenceIsAValue) /\ [][UNCHANGED browserVars]_vars

\* a resolver returned absence after a query or an element raised
C13_Witness ==
    /\ lcPc = "done"
    /\ lcRaised
    /\ lcFirstVisible = NoElement
    /\ lcResult \in {NoElement, ListOf(<<>>)}

-----------------------------------------------------------------------------
(* Polling waits *)

\* no wait has evaluated its condition more often than its poll budget
WithinPollBudget ==
    /\ wtKind = "cloudflare" => wtPolls <= 1 + cf_polls
    /\ wtKind = "pow" => wtPolls <= max_wait \div poll_interval
    /\ wtOut \in {"none", "caught", "no_challenge", "cleared", "enabled",
                  "timeout"}
    /\ (wtPc = "done" /\ wtOut = "timeout")
          => wtPolls = (IF wtKind = "pow" THEN max_wait \div poll_interval
                        ELSE 1 + cf_polls)

\* C14: every polling wait is bounded whatever its predicate does:
\* handle_cloudflare evaluates the challenge marker at most 1 + 30 times
\* and returns without raising, the proof-of-work wait evaluates the button
\* condition at most 100 times and then ends with a timeout; neither loop
\* goes on past its budget.
C14_WaitsBounded == [](WithinPollBudget) /\ <>(wtPc = "done")

\* the proof-of-work wait used up its whole budget and timed out
C14_Witness ==
    /\ wtKind = "pow"
    /\ wtPc = "done"
    /\ wtOut = "timeout"
    /\ wtPolls = 100

-----------------------------------------------------------------------------
(* Termination of the unread traversal *)

\* C15: read_posts terminates whenever every browser operation returns,
\* also when the first listed unread topic always loads an error page or
\* always fails to open, so that count never advances.
C15_ReadPostsTerminates == <>(rdPc = "done")

-----------------------------------------------------------------------------
(* One classification per attempt *)

\* the attempts started so far
Attempts == Len(SelectSeq(arLog, LAMBDA e : e = "attempt"))

\* C20: every execution of _anyrouter_checkin_attempt ends in exactly one
\* classification, True or False, whatever browser operation fails at
\* whatever step, a failure inside the window consolidation included; no
\* exception reaches the retry loop.
C20_ExactlyOneClassification ==
    /\ \A i \in DOMAIN outcomes : outcomes[i] \in BOOLEAN
    /\ arPc \in {"drive", "ret", "done"} => Len(outcomes) = Attempts
    /\ arPc = "classify" => Len(outcomes) = Attempts - 1
    /\ arReturn \in {"none", "success", "failure"}

\* window consolidation raised (it closed every window) and the attempt
\* ended classified False
C20_Witness ==
    /\ arPc = "ret"
    /\ att.phase = "classified"
    /\ handles = <<>>
    /\ LastOutcome = FALSE

-----------------------------------------------------------------------------
(* main *)

\* the positions in mnLog of the events of config c named what
EventsOf(c, what) ==
    {i \in DOMAIN mnLog : mnLog[i].cfg = c /\ mnLog[i].what = what}

\* config c has been processed to its end
Processed(c) == c < mnIdx \/ (c = mnIdx /\ mnPc \in {"loop", "exit"})

\* config c suffered a session failure: its session could not be created
\* or authenticated, or broke while the forum was browsed
SessionFailed(c) ==
    \E i \in DOMAIN mnLog :
       /\ mnLog[i].cfg = c
       /\ mnLog[i].what \in {"forum", "start"}
       /\ mnLog[i].res = "raised"

\* C16: for a linux.do configuration tunehub_checkin, anyrouter_checkin and
\* qaqal_checkin are each started, whatever the earlier workflows (forum
\* browsing included) returned or raised.
C16_CheckinsAllStarted ==
    \A c \in DOMAIN mnConfigs :
       (mnConfigs[c] /\ Processed(c)) =>
          /\ EventsOf(c, "forum") # {}
          /\ EventsOf(c, "tunehub") # {}
          /\ EventsOf(c, "anyrouter") # {}
          /\ EventsOf(c, "qaqal") # {}

\* forum browsing raised, TuneHub failed, AnyRouter used up its attempts,
\* and the last check-in was still started
C16_Witness ==
    /\ mnIdx >= 1 /\ mnConfigs[mnIdx] /\ Processed(mnIdx)
    /\ SessionFailed(mnIdx)
    /\ \E i \in EventsOf(mnIdx, "tunehub") : mnLog[i].res = "False"
    /\ \E i \in EventsOf(mnIdx, "anyrouter") : mnLog[i].res = "False"
    /\ EventsOf(mnIdx, "qaqal") # {}

\* C17: a failure to create or authenticate the session of one
\* configuration aborts that configuration only: no further workflow of it
\* runs on the failed session, and every later configuration is processed.
C17_SessionFailureAbortsConfig ==
    /\ \A c \in DOMAIN mnConfigs :
          SessionFailed(c) =>
             \A what \in {"tunehub", "anyrouter", "qaqal"} :
                EventsOf(c, what) = {}
    /\ mnPc = "exit" =>
          \A c \in DOMAIN mnConfigs : \E i \in DOMAIN mnLog : mnLog[i].cfg = c

\* a session failure or a retry exhaustion happened in this run
SomeFailure ==
    \/ \E c \in DOMAIN mnConfigs : SessionFailed(c)
    \/ \E i \in DOMAIN mnLog :
          mnLog[i].what = "anyrouter" /\ mnLog[i].res = "False"

\* C18: the exit state of main is a failure outcome if and only if some
\* configuration suffered a session failure or a retry exhaustion.
C18_ExitReflectsFailure ==
    mnPc = "exit" => (mnExit # 0 <=> SomeFailure)

\* C19: within a linux.do configuration the session is never quit before
\* the last check-in has finished: every quit comes after qaqal_checkin
\* returned.
C19_QuitAfterLastCheckin ==
    \A c \in DOMAIN mnConfigs :
       mnConfigs[c] =>
          \A q \in EventsOf(c, "quit") :
             \E i \in EventsOf(c, "qaqal") : i < q

-----------------------------------------------------------------------------
(* C21: a failure of one turn of the scroll loop of simulate_reading or of *)
(* the like loop of random_like does not end the loop; the loop ends only  *)
(* by its own exit conditions.                                             *)

\* the like loop: a turn whose scroll or clicks raised leaves the loop running
C21_LikeLoopSurvives ==
    [][(Len(lkLog') > Len(lkLog) /\ lkLog'[Len(lkLog')].outcome = "raised")
          => lkPc' = "loop"]_vars

\* C21, the scroll loop: once the loop of simulate_reading was left, it was
\* left by its stable bottom or by its time budget, never by a browser
\* operation that raised in one turn
C21_ScrollLoopEndsByItsConditions ==
    srPc \in {"after", "done"} => srOut \in {"bottom", "timeout"}

-----------------------------------------------------------------------------
(* C25: simulate_reading ends with 'reached bottom' only after three       *)
(* at-bottom checks in a row, a check that is not at bottom resetting the  *)
(* counter to 0; otherwise the loop ends only when the time is used up.    *)

\* the at-bottom checks at the end of the latest checks
RECURSIVE TrailingBottoms(_)
TrailingBottoms(s) ==
    IF s = <<>> \/ ~s[Len(s)] THEN 0 ELSE 1 + TrailingBottoms(SubSeq(s, 1, Len(s) - 1))

\* bottom_count is the number of at-bottom checks in a row, and 'reached
\* bottom' means three of them
C25_CounterCountsInARow ==
    /\ bottom_count = TrailingBottoms(srLast)
    /\ srOut = "bottom" <=> bottom_count >= bottom_needed

\* C25: the loop of simulate_reading is left either with 'reached bottom',
\* the three latest checks all at bottom, or with the time budget used up
C25_BottomThriceOrTimeUp ==
    /\ C25_CounterCountsInARow
    /\ srPc \in {"after", "done"} =>
          \/ /\ srOut = "bottom"
             /\ Len(srLast) = bottom_needed
             /\ \A i \in 1..Len(srLast) : srLast[i]
          \/ /\ srOut = "timeout"
             /\ srElapsed >= max_time

-----------------------------------------------------------------------------
(* C22: after every consolidation step of _anyrouter_checkin_attempt the   *)
(* window treated as active is one of the open windows, also when a window *)
(* closed by itself between the scan and the consolidation.                *)

\* C22: an attempt that went through its consolidation step returns with the
\* active window among the open windows
C22_ActiveWindowIsOpen ==
    (arPc = "ret" /\ att.phase = "classified") => cur \in Range(handles)

-----------------------------------------------------------------------------
(* C23: in _anyrouter_checkin_attempt a LinuxDO button found by neither    *)
(* locator ends the attempt as failure at once, before any window switch,  *)
(* scan or consolidation; an authorize button not found within its wait    *)
(* lets the attempt go on to the scan and the classification; no click is  *)
(* issued on an element that was not located.                              *)

\* C23: a step of the attempt that found no LinuxDO button returns False
\* with the windows and the active window as they were and nothing clicked;
\* one that timed out on the authorize button goes on to the scan with no
\* click on that button; and the scan that follows classifies the attempt
C23_RequiredEndsBestEffortGoesOn ==
    [][/\ (arPc = "drive" /\ att'.step = "no_button") =>
             /\ arPc' = "ret"
             /\ outcomes' = Append(outcomes, FALSE)
             /\ handles' = handles /\ cur' = cur
             /\ att'.clicks = {}
       /\ (arPc = "drive" /\ att'.step = "timeout") =>
             /\ arPc' = "classify"
             /\ outcomes' = outcomes
             /\ att'.clicks = {"linuxdo"}
       /\ (arPc = "classify" /\ att.step = "timeout") =>
             /\ att'.phase = "classified"
             /\ att'.authorize = "timeout"
             /\ Len(outcomes') = Len(outcomes) + 1]_vars

\* the second attempt, made after a failed one, found no authorize button
\* and was classified by the scan
C23_Witness ==
    /\ attempt = 2
    /\ arPc = "ret"
    /\ att.phase = "classified"
    /\ att.authorize = "timeout"

\* an attempt ended at once for want of the LinuxDO button
C23_WitnessNoButton ==
    arPc = "ret" /\ att.phase = "drive" /\ att.step = "no_button"

-----------------------------------------------------------------------------
(* C24: the window _anyrouter_checkin_attempt switches to as the new       *)
(* federated-login window was not open when the attempt started, in every  *)
(* attempt of the retry sequence.                                          *)

\* C24: the window steps 1 to 7 switch to as the new tab is none of the
\* windows that were open when the attempt started
C24_NewWindowIsNew ==
    [][(arPc = "drive" /\ att'.phase = "drive" /\ att'.new_window # NoWindow)
          => att'.new_window \notin Range(handles)]_vars

-----------------------------------------------------------------------------
(* C28: every return path of _anyrouter_checkin_attempt (success,          *)
(* classified failure, undetermined, early return, exception) leaves       *)
(* exactly one window open.                                                *)

\* C28: whenever an attempt has returned, exactly one window is open
C28_OneWindowAfterAttempt ==
    arPc = "ret" => Len(handles) = 1

\* the returns that follow a consolidation that did not raise do leave one
\* window, the active one
C28_OneWindowAfterConsolidation ==
    (arPc = "ret" /\ att.phase = "classified" /\ cur # NoWindow) =>
       handles = <<cur>>

-----------------------------------------------------------------------------
(* C29: whenever _anyrouter_checkin_attempt returns True, the one window   *)
(* left is active and shows a URL of anyrouter.top that is not the login   *)
(* page, on the direct success path and on the verification path.          *)

\* C29: an attempt that returned True left one window, the active one, on
\* anyrouter.top and not on /login
C29_TrueMeansSignedIn ==
    (arPc = "ret" /\ outcomes[Len(outcomes)]) =>
       /\ handles = <<cur>>
       /\ OnAnyrouter(page[cur].url)
       /\ ~HasLogin(page[cur].url)

\* the direct success path does end on /console/token
C29_DirectSuccessOnToken ==
    (arPc = "ret" /\ outcomes[Len(outcomes)] /\ ~att.verified) =>
       /\ handles = <<cur>>
       /\ HasSuccessPattern(page[cur].url)

-----------------------------------------------------------------------------
(* C26: find_likeable_elements consults its fallback selectors only when   *)
(* the primary selector yields no eligible element; every element it       *)
(* returns is visible; the elements of the primary selector it returns     *)
(* carry the unliked icon.                                                 *)

\* the displayed containers with the unliked icon in the list q returned
Eligible(q) == SelectSeq(q.els, LAMBDA c : c.shown = "visible" /\ c.unliked)

\* every element of the list returned is visible, and unliked when of the
\* primary selector
ReturnedAreLikeable ==
    LcDone("likes") =>
        \A i \in DOMAIN lcResult.elems :
           /\ lcResult.elems[i].shown = "visible"
           /\ lcResult.elems[i].cand = 1 => lcResult.elems[i].unliked

\* C26: the step on the primary selector goes on to the fallback selectors
\* only if the primary list has no eligible element, and else returns the
\* eligible elements of the primary list alone; whatever is returned is
\* visible, and unliked if of the primary selector
C26_FallbackOnlyWithoutPrimary ==
    /\ []ReturnedAreLikeable
    /\ [][(lcKind = "likes" /\ lcIdx = 1) =>
            IF Eligible(lcQuery') = <<>>
            THEN lcIdx' = 2 /\ lcPc' = "run"
            ELSE /\ lcPc' = "done"
                 /\ lcResult' = ListOf(Eligible(lcQuery'))]_vars

\* a call returned elements of a fallback selector, its primary list having
\* had no eligible container
C26_Witness ==
    /\ LcDone("likes")
    /\ lcResult.kind = "list"
    /\ lcResult.elems # <<>>
    /\ lcResult.elems[1].cand > 1

\* a call returned a container of the primary selector and left out a
\* visible one that is already liked
C26_WitnessPrimary ==
    /\ LcDone("likes")
    /\ Len(lcResult.elems) = 1
    /\ lcResult.elems[1].cand = 1
    /\ Len(lcQuery.els) = 2
    /\ \E i \in 1..2 : lcQuery.els[i].shown = "visible" /\ ~lcQuery.els[i].unliked

-----------------------------------------------------------------------------
(* C27: read_new_posts terminates when the list page can show finitely     *)
(* many URLs: every turn leaves the loop or adds a URL not yet in          *)
(* visited_urls, recorded before the topic is opened, so the turns are at  *)
(* most the distinct URLs plus one, also when every topic fails to load.   *)

\* every turn that opened a topic added its URL, a new one, to visited_urls,
\* whatever became of the topic; the turns are bounded by the URLs
NewTurnsAddUrls ==
    /\ visited_urls = {rdLog[i][1] : i \in DOMAIN rdLog}
    /\ Cardinality(visited_urls) = Len(rdLog)
    /\ visited_urls \subseteq listed0
    /\ Len(rdLog) + (IF rdPc = "done" THEN 1 ELSE 0)
           <= Cardinality(listed0) + 1

\* C27: in read_new_posts each turn opens a URL not opened before, the
\* turns never exceed the distinct URLs of the page plus one, and the
\* traversal ends
C27_NewTraversalEnds ==
    /\ []NewTurnsAddUrls
    /\ <>(rdPc = "done")

\* the traversal ended after opening every topic of the page, none of
\* which could be read
C27_Witness ==
    /\ rdKind = "new" /\ rdPc = "done"
    /\ listed0 = Topics
    /\ Len(rdLog) = NumTopics
    /\ count = 0
    /\ \A i \in DOMAIN rdLog : rdLog[i][2] = "load_error"

-----------------------------------------------------------------------------
(* C30: qaqal_checkin clicks the submit button only after it saw the       *)
(* button enabled within the polling budget; when the budget is used up    *)
(* without that, it returns False and never clicks submit.                 *)

\* C30: a submit click was preceded by a poll, made with elapsed below
\* max_wait, that found the button enabled; a wait that timed out is
\* followed by no click and by the return of False
C30_SubmitOnlyAfterEnabled ==
    /\ wtSubmit.clicked =>
          /\ wtOut = "enabled"
          /\ wtI < max_wait
          /\ wtPolls >= 1
    /\ (wtKind = "pow" /\ wtOut = "timeout") =>
          /\ ~wtSubmit.clicked
          /\ wtSubmit.ret \in {"none", "False"}

\* the button was seen enabled at the last poll of the budget, and submit
\* was clicked
C30_Witness ==
    /\ wtKind = "pow"
    /\ wtSubmit.clicked
    /\ wtI = max_wait - poll_interval

\* the budget was used up and the check-in returned False with no click
C30_WitnessTimeout ==
    /\ wtKind = "pow" /\ wtOut = "timeout"
    /\ wtSubmit = [clicked |-> FALSE, ret |-> "False"]

-----------------------------------------------------------------------------
(* C31: each browser session that was created is quit exactly once, for    *)
(* every configuration and every combination of workflow outcomes, before  *)
(* the next configuration starts.                                          *)

\* C31: no configuration sees driver.quit called twice, and the
\* configuration just processed saw it called once if its session was
\* created and not at all if it was not
C31_QuitExactlyOnce ==
    /\ \A c \in DOMAIN mnConfigs : Cardinality(EventsOf(c, "quit")) <= 1
    /\ (mnIdx >= 1 /\ Processed(mnIdx)) =>
          Cardinality(EventsOf(mnIdx, "quit"))
             = (IF mnDriver = "none" THEN 0 ELSE 1)

\* every session that was created is quit at least once before the next
\* configuration starts
C31_QuitAtLeastOnce ==
    (mnIdx >= 1 /\ Processed(mnIdx) /\ mnDriver # "none") =>
       /\ mnDriver = "quit"
       /\ EventsOf(mnIdx, "quit") # {}

-----------------------------------------------------------------------------
(* C32: for a linux.do configuration the workflows are started in the      *)
(* order forum browsing, tunehub_checkin, anyrouter_checkin, qaqal_checkin,*)
(* each exactly once; for any other configuration only forum browsing      *)
(* runs and no check-in is started; configurations are processed one       *)
(* after another.                                                          *)

\* the workflows started so far, in the order of their start
Started ==
    SelectSeq(mnLog, LAMBDA e : e.what # "quit")

\* the workflows of config c, in the order of their start
StartedOf(c) ==
    LET of == SelectSeq(Started, LAMBDA e : e.cfg = c)
    IN  [i \in DOMAIN of |-> of[i].what]

LinuxDoOrder == <<"forum", "tunehub", "anyrouter", "qaqal">>

\* C32: what a config has started is a prefix of the fixed order, the whole
\* of it once the config is processed, if the config is a linux.do one, and
\* forum browsing alone if not; no workflow of a config starts after one of
\* a later config
C32_FixedOrderOncePerConfig ==
    /\ \A c \in DOMAIN mnConfigs :
          LET done == StartedOf(c)
              order == IF mnConfigs[c] THEN LinuxDoOrder ELSE <<"start">>
          IN  /\ Len(done) <= Len(order)
              /\ done = SubSeq(order, 1, Len(done))
              /\ Processed(c) => done = order
              /\ c > mnIdx => done = <<>>
    /\ \A i, j \in DOMAIN mnLog : i < j => mnLog[i].cfg <= mnLog[j].cfg

\* two configurations were processed, a linux.do one whose forum browsing
\* raised and another forum
C32_Witness ==
    /\ mnPc = "exit"
    /\ Len(mnConfigs) = 2
    /\ mnConfigs[1] /\ ~mnConfigs[2]
    /\ SessionFailed(1)
    /\ StartedOf(1) = LinuxDoOrder
    /\ StartedOf(2) = <<"start">>

-----------------------------------------------------------------------------
(* C34: a failure of the reset does not break the retry sequence: when     *)
(* reading or deleting cookies raises in _clear_anyrouter_cookies, the     *)
(* exception is not propagated and anyrouter_checkin runs its next         *)
(* attempt; the number of attempts is unaffected.                          *)

\* the linux.do cookie that shares its name with the anyrouter.top one: the
\* delete_cookie of a reset that gets to the anyrouter.top cookie removes it
SharedNameCookie == [name |-> "session", domain |-> <<"linux", "do">>]

\* C34: after a failed attempt that is not the last, the next attempt is
\* started, however far the reset got; anyrouter_checkin returns False
\* only after max_retries attempts
C34_ResetFailureKeepsRetrying ==
    /\ [][(arPc = "ret" /\ ~outcomes[Len(outcomes)] /\ attempt < max_retries)
             => /\ arPc' = "drive"
                /\ attempt' = attempt + 1
                /\ outcomes' = outcomes
                /\ arReturn' = "none"]_vars
    /\ [](arReturn = "failure" => (Attempts = max_retries /\ attempt = max_retries))

\* both resets raised before they deleted anything (the cookie deleted
\* along with the anyrouter.top one is still there), and the third attempt
\* was made all the same
C34_Witness ==
    /\ attempt = max_retries
    /\ arPc = "ret"
    /\ Attempts = max_retries
    /\ SharedNameCookie \in jar

-----------------------------------------------------------------------------
(* C33: read_posts and read_new_posts are invoked only after the selected  *)
(* login method (credentials when both username and password are given,   *)
(* otherwise cookies) completed with the logged-in marker observed; if    *)
(* the login times out or no authentication method is configured, neither *)
(* traversal runs.                                                         *)

\* the positions of what in the record of _setup_driver
SetupEvents(what) == {i \in DOMAIN suLog : suLog[i] = what}

\* C33: every traversal in the record comes after the logged-in marker was
\* seen, and the marker after the start of the login method the
\* configuration selects, the only one started
C33_ReadOnlyWhenLoggedIn ==
    /\ \A i \in SetupEvents("read_posts") \cup SetupEvents("read_new_posts") :
          \E j \in SetupEvents("logged_in") : j < i
    /\ \A j \in SetupEvents("logged_in") :
          \E k \in SetupEvents(login_method(suCfg)) : k < j
    /\ \A m \in {"credentials", "cookies"} \ {login_method(suCfg)} :
          SetupEvents(m) = {}
    /\ SetupEvents("read_new_posts") # {} => SetupEvents("read_posts") # {}

\* with a username, no password and a cookie string, the cookie login saw
\* the marker although one cookie was refused, and both traversals ran
C33_Witness ==
    /\ suPc = "done"
    /\ suCfg.username /\ ~suCfg.password
    /\ SetupEvents("cookies") # {}
    /\ SetupEvents("cookie_refused") # {}
    /\ SetupEvents("read_new_posts") # {}

\* the login timed out, or there was no method, and nothing was read
C33_WitnessNoLogin ==
    /\ suPc = "raised"
    /\ SetupEvents("launched") # {}
    /\ SetupEvents("logged_in") = {}

====
